---------------------------- MODULE Spec2Model ----------------------------
(***************************************************************************)
(* A model of PyQtImageViewer: the full-size viewer (FullImage.py) with    *)
(* its undo buffer, adjust dialog, selection rectangle and zoom state; the *)
(* browser window (MainWindow.py) with its directory listing and per-folder*)
(* memo; the thumbnail loader (Thumbnail.py) with its worker pool and      *)
(* cooperative cancellation; and the filter functions (ImageTools.py).     *)
(*                                                                         *)
(* Calls into Pillow, OpenCV and Qt are modelled by their documented       *)
(* results; they are taken to return normally.                             *)
(***************************************************************************)
EXTENDS Integers, Sequences, FiniteSets, TLC

(***************************************************************************)
(* Bounds of the model.                                                    *)
(***************************************************************************)
\* The deepest undo buffer the viewer specification explores.
MaxUndo == 2

\* The most operations the current image of the viewer specification has
\* been through.
MaxHistory == 4

\* The most entries a directory holds in the listing specification.
MaxEntries == 3

\* The largest side of an image handed to SuperResolution on its own.
MaxSide == 3

\* The factors handed to SuperResolution on its own run from -MaxFactor to
\* MaxFactor.
MaxFactor == 6

\* The threads of the thumbnail executor.
MaxWorkers == 2

\* The times a folder is listed while Thumbnail objects that have left the
\* list before are still alive.
MaxStale == 0

\* The calls of resetScroll that may wait for the event loop at a time
MaxPending == 1

\* The pointer goes as far right and down as MaxPoint
MaxPoint == 4

\* The wheel is turned at most MaxNotch notches away from the scale of the
\* last fitInView
MaxNotch == 1

\* The view is panned at most MaxPan to the right of the media's origin
MaxPan == 2

(***************************************************************************)
(* Small helpers.                                                          *)
(***************************************************************************)
Min(a, b) == IF a <= b THEN a ELSE b

Max(a, b) == IF a >= b THEN a ELSE b

Last(s) == s[Len(s)]

Front(s) == SubSeq(s, 1, Len(s) - 1)

(***************************************************************************)
(* Images.  A Pillow image is a value: the file it was decoded from, the   *)
(* operations applied to it since, and its size.  Every ImageTools         *)
(* function returns a new image and leaves its input untouched.            *)
(***************************************************************************)
NoImage == [src |-> "None", ops |-> <<>>, w |-> 0, h |-> 0]

Tag(name, a, b) == [op |-> name, a |-> a, b |-> b]

Applied(img, name, a, b) == [img EXCEPT !.ops = Append(@, Tag(name, a, b))]

\* ImageTools._ManipulateImage: inputImage.filter(filter)
ManipulateImage(inputImage, filter) == Applied(inputImage, filter, 0, 0)

\* ImageTools.Sharpen .. ImageTools.UnsharpMask
FilterNames ==
    {"Sharpen", "Blur", "Contour", "Detail", "EdgeEnhance", "Emboss",
     "FindEdges", "Smooth", "UnsharpMask"}

\* ImageTools.AutoContrast
AutoContrast(inputImage) == Applied(inputImage, "AutoContrast", 0, 0)

\* ImageTools.Colour, Contrast, Brightness: the factor is held in tenths.
Colour(inputImage, factor) == Applied(inputImage, "Colour", factor, 0)

Contrast(inputImage, factor) == Applied(inputImage, "Contrast", factor, 0)

Brightness(inputImage, factor) == Applied(inputImage, "Brightness", factor, 0)

\* ImageTools.Denoise
Denoise(inputImage) == Applied(inputImage, "Denoise", 0, 0)

\* sr.upsample: the model inference, which scales both sides by the factor.
Upsample(inputImage, factor) ==
    [Applied(inputImage, "Upsample", factor, 0)
        EXCEPT !.w = factor * inputImage.w, !.h = factor * inputImage.h]

\* A variant whose range check admits factor 1
SuperResolutionFromOne(inputImage, factor) ==
    IF factor >= 1 /\ factor <= 4
    THEN [image |-> Upsample(inputImage, factor), inference |-> TRUE,
          logged |-> FALSE, raised |-> FALSE]
    ELSE [image |-> inputImage, inference |-> FALSE,
          logged |-> TRUE, raised |-> FALSE]

\* ImageTools.SuperResolution.  The result says which image is returned,
\* whether the model ran, whether the error was logged and whether the call
\* raised.
SuperResolutionCall(inputImage, factor) ==
    IF factor >= 2 /\ factor <= 4
    THEN [image |-> Upsample(inputImage, factor), inference |-> TRUE,
          logged |-> FALSE, raised |-> FALSE]
    ELSE [image |-> inputImage, inference |-> FALSE,
          logged |-> TRUE, raised |-> FALSE]

SuperResolution(inputImage, factor) == SuperResolutionCall(inputImage, factor).image


(***************************************************************************)
(* File names.  A name is a string; Codes gives its characters, so that    *)
(* str.lower(), Path.suffix and the ordering of sorted() are computed.     *)
(***************************************************************************)
Codes ==
    "Sub" :> <<83, 117, 98>> @@
    "apps" :> <<97, 112, 112, 115>> @@
    ".git" :> <<46, 103, 105, 116>> @@
    "alb.png" :> <<97, 108, 98, 46, 112, 110, 103>> @@
    "a.png" :> <<97, 46, 112, 110, 103>> @@
    "A.PNG" :> <<65, 46, 80, 78, 71>> @@
    "B.JPG" :> <<66, 46, 74, 80, 71>> @@
    "c.mp4" :> <<99, 46, 109, 112, 52>> @@
    "C.MP4" :> <<67, 46, 77, 80, 52>> @@
    "d.mkv" :> <<100, 46, 109, 107, 118>> @@
    "e.txt" :> <<101, 46, 116, 120, 116>> @@
    ".png" :> <<46, 112, 110, 103>> @@
    "f.webp" :> <<102, 46, 119, 101, 98, 112>> @@
    "g.jpeg" :> <<103, 46, 106, 112, 101, 103>> @@
    "h.gif" :> <<104, 46, 103, 105, 102>> @@
    "pics" :> <<112, 105, 99, 115>> @@
    "Pictures" :> <<80, 105, 99, 116, 117, 114, 101, 115>> @@
    "home" :> <<104, 111, 109, 101>>

Dot == 46

\* str.lower() on one character and on a string of them
LowerChar(c) == IF c >= 65 /\ c <= 90 THEN c + 32 ELSE c

Lower(cs) == [i \in 1..Len(cs) |-> LowerChar(cs[i])]

\* str.rfind('.'): the last index holding a dot, 0 when there is none
RFindDot(cs) ==
    LET dots == {i \in 1..Len(cs) : cs[i] = Dot}
    IN  IF dots = {} THEN 0 ELSE CHOOSE i \in dots : \A j \in dots : j <= i

\* pathlib's PurePath.suffix: the text from the last dot, unless the dot
\* leads the name or ends it
SuffixOf(cs) ==
    LET i == RFindDot(cs)
    IN  IF 1 < i /\ i < Len(cs) THEN SubSeq(cs, i, Len(cs)) ELSE <<>>

\* The order of Python strings: by character, a proper prefix first
RECURSIVE StrLess(_, _)
StrLess(a, b) ==
    IF b = <<>> THEN FALSE
    ELSE IF a = <<>> THEN TRUE
    ELSE IF Head(a) # Head(b) THEN Head(a) < Head(b)
    ELSE StrLess(Tail(a), Tail(b))

(***************************************************************************)
(* Constants.py                                                            *)
(***************************************************************************)
IMAGE_EXTENSIONS ==
    {<<46, 103, 105, 102>>,         \* .gif
     <<46, 106, 112, 103>>,         \* .jpg
     <<46, 106, 112, 101, 103>>,    \* .jpeg
     <<46, 112, 110, 103>>,         \* .png
     <<46, 119, 101, 98, 112>>}     \* .webp

VIDEO_EXTENSIONS == {<<46, 109, 112, 52>>}    \* .mp4

SUPPORTED_EXTENSIONS == IMAGE_EXTENSIONS \cup VIDEO_EXTENSIONS

(***************************************************************************)
(* Paths and the file system.  A path is the sequence of its names from    *)
(* the root.  A file system maps each directory it knows to its entries in *)
(* the order iterdir() yields them.                                        *)
(***************************************************************************)
\* Path.parent: the root is its own parent
Parent(path) == IF path = <<>> THEN <<>> ELSE Front(path)

\* Path.name as characters
NameOf(path) == IF path = <<>> THEN <<>> ELSE Codes[Last(path)]

\* Path.suffix
Suffix(path) == SuffixOf(NameOf(path))

\* Path.is_dir(): the root is a directory
IsDir(fsys, path) ==
    \/ path = <<>>
    \/ path \in DOMAIN fsys
    \/ /\ path # <<>>
       /\ Parent(path) \in DOMAIN fsys
       /\ \E i \in 1..Len(fsys[Parent(path)]) :
              /\ fsys[Parent(path)][i].name = Last(path)
              /\ fsys[Parent(path)][i].isDir

\* Path.is_file()
IsFile(fsys, path) ==
    /\ path # <<>>
    /\ Parent(path) \in DOMAIN fsys
    /\ \E i \in 1..Len(fsys[Parent(path)]) :
           /\ fsys[Parent(path)][i].name = Last(path)
           /\ ~fsys[Parent(path)][i].isDir

\* Path.iterdir()
IterDir(fsys, path) ==
    [i \in 1..Len(fsys[path]) |-> Append(path, fsys[path][i].name)]

\* sorted(seq, key=lambda x: x.name.lower()): a stable sort, so entries whose
\* keys are equal keep the order they came in
SortKey(path) == Lower(NameOf(path))

RECURSIVE InsertSorted(_, _)
InsertSorted(sorted, path) ==
    IF sorted = <<>> THEN <<path>>
    ELSE IF StrLess(SortKey(path), SortKey(Head(sorted)))
         THEN <<path>> \o sorted
         ELSE <<Head(sorted)>> \o InsertSorted(Tail(sorted), path)

RECURSIVE SortedByName(_)
SortedByName(seq) ==
    IF seq = <<>> THEN <<>>
    ELSE InsertSorted(SortedByName(Front(seq)), Last(seq))

\* MainWindow._GetImagePathList
GetImagePathList(fsys, currentPath) ==
    LET Supported(image) == Lower(Suffix(image)) \in SUPPORTED_EXTENSIONS
    IN  SortedByName(SelectSeq(IterDir(fsys, currentPath), Supported))

\* MainWindow._GetFolderList
GetFolderList(fsys, currentPath) ==
    LET Shown(path) == IsDir(fsys, path) /\ NameOf(path)[1] # Dot
    IN  <<Parent(currentPath)>>
            \o SortedByName(SelectSeq(IterDir(fsys, currentPath), Shown))

\* MainWindow.SetLabels, lines 333-340: the folders, then the images
FileList(fsys, currentPath) ==
    GetFolderList(fsys, currentPath) \o GetImagePathList(fsys, currentPath)

(***************************************************************************)
(* The state.                                                              *)
(*   fs      the file system (directories and their entries)               *)
(*   view    the fields of the FullImage object                            *)
(*   menu    the enabled flags of the window's menus and QActions          *)
(*   mw      the fields of the MainWindow object                           *)
(*   dialog  the SliderDialog, while one is executing                      *)
(*   pc      where the UI thread stands inside a handler it has not left   *)
(*   gh      history of the viewer session, for stating properties         *)
(*   sr      a call of ImageTools.SuperResolution on its own               *)
(*   th      the Thumbnail objects, the executor's queue and its threads   *)
(***************************************************************************)
VARIABLES fs, view, menu, mw, dialog, pc, gh, sr, th

vars == <<fs, view, menu, mw, dialog, pc, gh, sr, th>>

viewerVars == <<view, menu, mw, dialog, pc, gh>>

(***************************************************************************)
(* Rectangles and points.  A QRectF is <<left, top, right, bottom>>, a     *)
(* point is <<x, y>>; None is the empty tuple.                             *)
(***************************************************************************)
None == <<>>

RectOf(topLeft, bottomRight) ==
    <<topLeft[1], topLeft[2], bottomRight[1], bottomRight[2]>>

RectWidth(r) == r[3] - r[1]

RectHeight(r) == r[4] - r[2]

\* QRectF::isNull: width and height are both zero
RectIsNull(r) == RectWidth(r) = 0 /\ RectHeight(r) = 0

NullRect == <<0, 0, 0, 0>>

\* An intersection that yields its first operand
IntersectedFirst(r1, r2) == r1

\* QRectF::intersected (operator&) for rectangles of non-negative size
Intersected(r1, r2) ==
    IF RectIsNull(r1) \/ RectIsNull(r2) THEN NullRect
    ELSE IF r1[1] >= r2[3] \/ r2[1] >= r1[3] THEN NullRect
    ELSE IF r1[2] >= r2[4] \/ r2[2] >= r1[4] THEN NullRect
    ELSE <<Max(r1[1], r2[1]), Max(r1[2], r2[2]),
           Min(r1[3], r2[3]), Min(r1[4], r2[4])>>

\* QGraphicsPixmapItem.boundingRect() of the item showing img
BoundingRect(img) == <<0, 0, img.w, img.h>>

\* r lies within bounds
RectWithin(r, bounds) ==
    /\ bounds[1] <= r[1] /\ r[1] <= r[3] /\ r[3] <= bounds[3]
    /\ bounds[2] <= r[2] /\ r[2] <= r[4] /\ r[4] <= bounds[4]

(***************************************************************************)
(* Decoding.  Image.open(path) yields the picture stored in the file.      *)
(***************************************************************************)
WidthOf(name) == IF name = "a.png" THEN 3 ELSE 2

HeightOf(name) == IF name = "B.JPG" THEN 3 ELSE 2

ImageOpen(path) ==
    [src |-> Last(path), ops |-> <<>>, w |-> WidthOf(Last(path)),
     h |-> HeightOf(Last(path))]

(***************************************************************************)
(* FullImage.  Each method is a function of the world w = [v, m]: v the    *)
(* FullImage fields, m the menu flags that the signals it emits set        *)
(* (MainWindow._addMenu connects each signal to QAction.setEnabled).       *)
(***************************************************************************)
\* The window as it is first shown
StartWindow == [width |-> 16, height |-> 2, margins |-> 0]

\* FullImage.__init__ (the fields InitialiseView creates are given the
\* values it gives them).  Of the QGraphicsView, viewport is the size of the
\* widget, origin the scene point at its top left corner, fitTo the
\* viewport size the last fitInView of the media fitted it to (None once
\* the transform is another) and wheel the factor scale() has applied
\* since the last fitInView, as <<numerator, denominator>>.
\* oldSceneCentre is None until scrollContentsBy first assigns the
\* attribute; raised says that the last resizeEvent raised; sceneRects is
\* the number of rectangle items in the QGraphicsScene.
ViewInit ==
    [imagePath |-> None, pilImage |-> NoImage, adjustedImage |-> NoImage,
     undoBuffer |-> <<>>, imageCanBeSaved |-> FALSE,
     pixmapItem |-> NoImage, videoItem |-> FALSE, rectItem |-> None,
     zoomed |-> FALSE, ctrlHeld |-> FALSE, startDragPoint |-> None,
     origin |-> <<0, 0>>, written |-> None,
     viewport |-> <<StartWindow.width, StartWindow.height>>,
     fitTo |-> None, wheel |-> <<1, 1>>, oldSceneCentre |-> None,
     raised |-> FALSE, sceneRects |-> 0]

\* MainWindow._addMenu: QActions are created enabled; _updateMenu then
\* disables the four menus
MenuInit ==
    [menus |-> FALSE, resetZoom |-> TRUE, zoomToRect |-> TRUE,
     cropToRect |-> TRUE, save |-> TRUE, undo |-> TRUE,
     imageActions |-> TRUE, videoActions |-> TRUE]

\* resetZoomEnableSignal.emit(b)
EmitResetZoomEnable(w, b) == [w EXCEPT !.m.resetZoom = b]

\* canZoomToRectSignal.emit(b)
EmitCanZoomToRect(w, b) == [w EXCEPT !.m.zoomToRect = b]

\* canCropToRectSignal.emit(b)
EmitCanCropToRect(w, b) == [w EXCEPT !.m.cropToRect = b]

\* imageModifiedSignal.emit(b): the Save and Undo actions
EmitImageModified(w, b) == [w EXCEPT !.m.save = b, !.m.undo = b]

\* imageLoadedSignal.emit(b): the image editing actions
EmitImageLoaded(w, b) == [w EXCEPT !.m.imageActions = b]

\* videoLoadedSignal.emit(b): the video transport actions
EmitVideoLoaded(w, b) == [w EXCEPT !.m.videoActions = b]

\* QGraphicsView.mapToScene(point)
MapToScene(v, point) == <<point[1] + v.origin[1], point[2] + v.origin[2]>>

\* QRect.center() of a widget of the given size
Center(size) == <<(size[1] - 1) \div 2, (size[2] - 1) \div 2>>

\* FullImage.scrollContentsBy: the contents move, and the scene point at the
\* centre of the view is recorded
ScrollContentsBy(w, dx, dy) ==
    LET moved == [w EXCEPT !.v.origin = <<@[1] + dx, @[2] + dy>>]
    IN  [moved EXCEPT !.v.oldSceneCentre =
                          MapToScene(moved.v, Center(moved.v.viewport))]

\* The scroll bars are set so that origin is at the top left corner: Qt
\* calls scrollContentsBy when that changes the value of a scroll bar
ScrollTo(w, origin) ==
    IF origin = w.v.origin THEN w
    ELSE ScrollContentsBy(w, origin[1] - w.v.origin[1], origin[2] - w.v.origin[2])

\* QGraphicsView.centerOn(pos)
CenterOn(w, pos) ==
    ScrollTo(w, <<pos[1] - Center(w.v.viewport)[1],
                  pos[2] - Center(w.v.viewport)[2]>>)

\* QGraphicsView.fitInView(item) for the media item: the transform is
\* replaced by the one that shows the whole item, from its origin
FitInView(w) ==
    ScrollTo([w EXCEPT !.v.wheel = <<1, 1>>, !.v.fitTo = w.v.viewport], <<0, 0>>)

\* QGraphicsScene.removeItem for the selection rectangle
SceneRemoveRect(w) == [w EXCEPT !.v.sceneRects = @ - 1]

\* Removing the selection rectangle and disabling its two menu items
RemoveRect(w) ==
    EmitCanCropToRect(
        EmitCanZoomToRect([SceneRemoveRect(w) EXCEPT !.v.rectItem = None], FALSE),
        FALSE)

\* A variant of ResetZoom that fits the media and leaves the flag and the
\* menu item as they are
ResetZoomKeepsFlag(w) ==
    IF w.v.pixmapItem # NoImage \/ w.v.videoItem THEN FitInView(w) ELSE w

\* FullImage.ResetZoom
ResetZoom(w) ==
    LET fitted == IF w.v.pixmapItem # NoImage \/ w.v.videoItem
                  THEN FitInView(w) ELSE w
    IN  EmitResetZoomEnable([fitted EXCEPT !.v.zoomed = FALSE], FALSE)

\* FullImage.UpdatePixmap(adjstedImage); NoImage stands for None
UpdatePixmap(w, adjstedImage) ==
    IF w.v.pilImage # NoImage
    THEN LET cleared == IF w.v.rectItem # None THEN RemoveRect(w) ELSE w
             qtImage == IF adjstedImage = NoImage
                        THEN w.v.pilImage ELSE adjstedImage
             shown == FitInView([cleared EXCEPT !.v.pixmapItem = qtImage])
         IN  EmitResetZoomEnable([shown EXCEPT !.v.zoomed = FALSE], FALSE)
    ELSE w

\* A variant that pops the buffer without restoring the popped image
UndoWithoutRestore(w) ==
    LET popped ==
            IF w.v.undoBuffer # <<>>
            THEN UpdatePixmap([w EXCEPT !.v.undoBuffer = Front(w.v.undoBuffer)],
                              NoImage)
            ELSE w
    IN  IF popped.v.undoBuffer = <<>>
        THEN EmitImageModified([popped EXCEPT !.v.imageCanBeSaved = FALSE], FALSE)
        ELSE popped

\* A variant that marks the image unmodified after every undo
UndoAlwaysClean(w) ==
    LET popped ==
            IF w.v.undoBuffer # <<>>
            THEN UpdatePixmap([w EXCEPT !.v.pilImage = Last(w.v.undoBuffer),
                                        !.v.undoBuffer = Front(w.v.undoBuffer)],
                              NoImage)
            ELSE w
    IN  EmitImageModified([popped EXCEPT !.v.imageCanBeSaved = FALSE], FALSE)

\* FullImage.UndoLastChange
UndoLastChange(w) ==
    LET popped ==
            IF w.v.undoBuffer # <<>>
            THEN UpdatePixmap([w EXCEPT !.v.pilImage = Last(w.v.undoBuffer),
                                        !.v.undoBuffer = Front(w.v.undoBuffer)],
                              NoImage)
            ELSE w
    IN  IF popped.v.undoBuffer = <<>>
        THEN EmitImageModified([popped EXCEPT !.v.imageCanBeSaved = FALSE], FALSE)
        ELSE popped

\* Path.stem: the name without its suffix
StemOf(cs) == SubSeq(cs, 1, Len(cs) - Len(SuffixOf(cs)))

\* The literal texts ' - Modified ' and '.png' of the f-string of SaveImage
ModifiedMark == <<32, 45, 32, 77, 111, 100, 105, 102, 105, 101, 100, 32>>

PngSuffix == <<46, 112, 110, 103>>

\* A variant that writes over the source file
SaveImageOverSource(w, now) ==
    IF w.v.imageCanBeSaved /\ w.v.pilImage # NoImage
    THEN [w EXCEPT !.v.written =
              <<Parent(w.v.imagePath), NameOf(w.v.imagePath)>>]
    ELSE w

\* FullImage.SaveImage, datetime.now().strftime(..) giving the text now:
\* written holds the file the last save wrote, as <<its directory, the
\* characters of its name>>
SaveImage(w, now) ==
    IF w.v.imageCanBeSaved /\ w.v.pilImage # NoImage
    THEN [w EXCEPT !.v.written =
              <<Parent(w.v.imagePath),
                StemOf(NameOf(w.v.imagePath)) \o ModifiedMark \o now
                    \o PngSuffix>>]
    ELSE w

\* QRectF.toRect() and PIL's crop((left, top, right, bottom)): QRect.right()
\* is left + width - 1 and QRect.bottom() is top + height - 1; an empty box
\* yields an empty image
CropBox(img, rect) ==
    [Applied(img, "crop", rect[1], rect[2])
        EXCEPT !.w = Max(0, RectWidth(rect) - 1),
               !.h = Max(0, RectHeight(rect) - 1)]

\* The bodies of the methods decorated with @undo: the new _pilImage
Manipulate(v, op) ==
    CASE op.name = "UpdateImage" -> v.adjustedImage
      [] op.name = "CropImage" ->
            IF v.rectItem # None /\ v.pilImage # NoImage
            THEN CropBox(v.pilImage, v.rectItem) ELSE v.pilImage
      [] op.name \in FilterNames ->
            IF v.pilImage # NoImage
            THEN ManipulateImage(v.pilImage, op.name) ELSE v.pilImage
      [] op.name = "AutoContrast" ->
            IF v.pilImage # NoImage THEN AutoContrast(v.pilImage) ELSE v.pilImage
      [] op.name = "Colour" ->
            IF v.pilImage # NoImage THEN Colour(v.pilImage, op.arg) ELSE v.pilImage
      [] op.name = "Contrast" ->
            IF v.pilImage # NoImage THEN Contrast(v.pilImage, op.arg) ELSE v.pilImage
      [] op.name = "Brightness" ->
            IF v.pilImage # NoImage THEN Brightness(v.pilImage, op.arg) ELSE v.pilImage
      [] op.name = "BlackAndWhite" ->
            IF v.pilImage # NoImage THEN Colour(v.pilImage, 0) ELSE v.pilImage
      [] op.name = "Denoise" ->
            IF v.pilImage # NoImage THEN Denoise(v.pilImage) ELSE v.pilImage
      [] op.name = "SuperResolution" ->
            IF v.pilImage # NoImage
            THEN SuperResolution(v.pilImage, 4) ELSE v.pilImage

\* A variant of the decorator's first statement that pushes the image twice
UndoAppendTwice(w) ==
    [w EXCEPT !.v.undoBuffer = Append(Append(@, w.v.pilImage), w.v.pilImage)]

\* A variant of the decorator's fourth statement that leaves the flag alone
UndoLeaveFlag(w) == w

\* FullImage.undo, the decorator, statement by statement
UndoAppend(w) == [w EXCEPT !.v.undoBuffer = Append(@, w.v.pilImage)]

UndoCallFunc(w, op) == [w EXCEPT !.v.pilImage = Manipulate(w.v, op)]

UndoUpdatePixmap(w) == UpdatePixmap(w, NoImage)

UndoSetCanBeSaved(w) == [w EXCEPT !.v.imageCanBeSaved = TRUE]

UndoEmitModified(w) == EmitImageModified(w, TRUE)

\* A variant that adjusts the preview of the last slider change, when there
\* is one, in place of the image
SliderChangedFromPreview(w, colour, contrast, brightness) ==
    IF w.v.pilImage # NoImage
    THEN LET base == IF w.v.adjustedImage # NoImage
                     THEN w.v.adjustedImage ELSE w.v.pilImage
             adjusted ==
                 Brightness(Contrast(Colour(base, colour), contrast), brightness)
         IN  UpdatePixmap([w EXCEPT !.v.adjustedImage = adjusted], adjusted)
    ELSE w

\* FullImage.SliderChanged
SliderChanged(w, colour, contrast, brightness) ==
    IF w.v.pilImage # NoImage
    THEN LET adjusted ==
                 Brightness(Contrast(Colour(w.v.pilImage, colour), contrast),
                            brightness)
         IN  UpdatePixmap([w EXCEPT !.v.adjustedImage = adjusted], adjusted)
    ELSE w

\* FullImage.SliderChangeRejected
SliderChangeRejected(w) == UpdatePixmap(w, w.v.pilImage)

\* FullImage._LoadPixmap
LoadPixmap(w) ==
    LET opened == [w EXCEPT !.v.pilImage = ImageOpen(w.v.imagePath),
                            !.v.pixmapItem = ImageOpen(w.v.imagePath)]
    IN  EmitVideoLoaded(EmitImageLoaded(ResetZoom(opened), TRUE), FALSE)

\* A variant of _LoadVideo that leaves the image editing actions alone
LoadVideoKeepsImageActions(w) ==
    EmitVideoLoaded([w EXCEPT !.v.videoItem = TRUE], TRUE)

\* FullImage._LoadVideo
LoadVideo(w) ==
    EmitVideoLoaded(EmitImageLoaded([w EXCEPT !.v.videoItem = TRUE], FALSE), TRUE)

\* A variant of InitialiseView that keeps the undo buffer
InitialiseViewKeepsUndo(w, imagePath) ==
    LET zoomReset == ResetZoom([w EXCEPT !.v.imagePath = imagePath])
        fresh == [zoomReset EXCEPT !.v.ctrlHeld = FALSE,
                                   !.v.startDragPoint = None,
                                   !.v.pixmapItem = NoImage,
                                   !.v.videoItem = FALSE,
                                   !.v.fitTo = None]
        noRect == IF fresh.v.rectItem # None THEN RemoveRect(fresh) ELSE fresh
        clean == [noRect EXCEPT !.v.imageCanBeSaved = FALSE]
    IN  IF Suffix(imagePath) \in IMAGE_EXTENSIONS
        THEN LoadPixmap(clean) ELSE LoadVideo(clean)

\* FullImage.InitialiseView; the items of the old media leave the scene,
\* so that what the view was fitted to is no longer in it
InitialiseView(w, imagePath) ==
    LET zoomReset == ResetZoom([w EXCEPT !.v.imagePath = imagePath])
        fresh == [zoomReset EXCEPT !.v.ctrlHeld = FALSE,
                                   !.v.startDragPoint = None,
                                   !.v.undoBuffer = <<>>,
                                   !.v.pixmapItem = NoImage,
                                   !.v.videoItem = FALSE,
                                   !.v.fitTo = None]
        noRect == IF fresh.v.rectItem # None THEN RemoveRect(fresh) ELSE fresh
        clean == [noRect EXCEPT !.v.imageCanBeSaved = FALSE]
    IN  IF Suffix(imagePath) \in IMAGE_EXTENSIONS
        THEN LoadPixmap(clean) ELSE LoadVideo(clean)

\* A variant of ZoomImage that zooms with or without a rectangle
ZoomImageWithoutRect(w) ==
    LET fitted == IF w.v.rectItem # None
                  THEN ScrollTo([w EXCEPT !.v.wheel = <<1, 1>>, !.v.fitTo = None],
                                <<w.v.rectItem[1], w.v.rectItem[2]>>)
                  ELSE w
        cleared == IF w.v.rectItem # None THEN RemoveRect(fitted) ELSE fitted
    IN  EmitResetZoomEnable([cleared EXCEPT !.v.zoomed = TRUE], TRUE)

\* FullImage.ZoomImage
ZoomImage(w) ==
    IF w.v.rectItem # None
    THEN LET fitted == ScrollTo([w EXCEPT !.v.wheel = <<1, 1>>, !.v.fitTo = None],
                                <<w.v.rectItem[1], w.v.rectItem[2]>>)
         IN  EmitResetZoomEnable([RemoveRect(fitted) EXCEPT !.v.zoomed = TRUE], TRUE)
    ELSE w

\* FullImage.keyPressEvent for Key_Meta, the cursor being at cursorPos
KeyPressMeta(w, cursorPos) ==
    [w EXCEPT !.v.ctrlHeld = TRUE, !.v.startDragPoint = cursorPos]

\* FullImage.keyReleaseEvent for Key_Meta
KeyReleaseMeta(w) == [w EXCEPT !.v.ctrlHeld = FALSE]

\* A variant of mousePressEvent that removes the rectangle on any press
MousePressAny(w, leftButton, metaModifier) ==
    IF w.v.rectItem # None THEN RemoveRect(w) ELSE w

\* FullImage.mousePressEvent
MousePress(w, leftButton, metaModifier) ==
    IF ~metaModifier /\ leftButton /\ w.v.rectItem # None
    THEN RemoveRect(w) ELSE w

\* A variant of mouseMoveEvent that enables Crop to Rect for any media
MouseMoveCropAlways(w, cursorPos) ==
    IF w.v.startDragPoint # None /\ w.v.ctrlHeld
    THEN LET topLeft == <<Min(MapToScene(w.v, w.v.startDragPoint)[1],
                              MapToScene(w.v, cursorPos)[1]),
                          Min(MapToScene(w.v, w.v.startDragPoint)[2],
                              MapToScene(w.v, cursorPos)[2])>>
             bottomRight == <<Max(MapToScene(w.v, w.v.startDragPoint)[1],
                                  MapToScene(w.v, cursorPos)[1]),
                              Max(MapToScene(w.v, w.v.startDragPoint)[2],
                                  MapToScene(w.v, cursorPos)[2])>>
             rect == RectOf(topLeft, bottomRight)
             constrained ==
                 IF w.v.pixmapItem # NoImage
                 THEN Intersected(rect, BoundingRect(w.v.pixmapItem))
                 ELSE rect
             removed == IF w.v.rectItem # None THEN SceneRemoveRect(w) ELSE w
             drawn == [removed EXCEPT !.v.rectItem = constrained,
                                      !.v.sceneRects = @ + 1]
         IN  EmitCanCropToRect(EmitCanZoomToRect(drawn, TRUE), TRUE)
    ELSE w

\* A variant of mouseMoveEvent that leaves the previous rectangle in the
\* scene
MouseMoveKeepsOld(w, cursorPos) ==
    IF w.v.startDragPoint # None /\ w.v.ctrlHeld
    THEN LET topLeft == <<Min(MapToScene(w.v, w.v.startDragPoint)[1],
                              MapToScene(w.v, cursorPos)[1]),
                          Min(MapToScene(w.v, w.v.startDragPoint)[2],
                              MapToScene(w.v, cursorPos)[2])>>
             bottomRight == <<Max(MapToScene(w.v, w.v.startDragPoint)[1],
                                  MapToScene(w.v, cursorPos)[1]),
                              Max(MapToScene(w.v, w.v.startDragPoint)[2],
                                  MapToScene(w.v, cursorPos)[2])>>
             rect == RectOf(topLeft, bottomRight)
             constrained ==
                 IF w.v.pixmapItem # NoImage
                 THEN Intersected(rect, BoundingRect(w.v.pixmapItem))
                 ELSE rect
             drawn == [w EXCEPT !.v.rectItem = constrained,
                                !.v.sceneRects = @ + 1]
         IN  EmitCanCropToRect(EmitCanZoomToRect(drawn, TRUE),
                               w.v.pixmapItem # NoImage)
    ELSE w

\* FullImage.mouseMoveEvent, lines 651-691, the cursor being at cursorPos
MouseMove(w, cursorPos) ==
    IF w.v.startDragPoint # None /\ w.v.ctrlHeld
    THEN LET sceneCursorPos == MapToScene(w.v, cursorPos)
             sceneStartDragPoint == MapToScene(w.v, w.v.startDragPoint)
             topLeft == <<Min(sceneStartDragPoint[1], sceneCursorPos[1]),
                          Min(sceneStartDragPoint[2], sceneCursorPos[2])>>
             bottomRight == <<Max(sceneStartDragPoint[1], sceneCursorPos[1]),
                              Max(sceneStartDragPoint[2], sceneCursorPos[2])>>
             rect == RectOf(topLeft, bottomRight)
             constrained ==
                 IF w.v.pixmapItem # NoImage
                 THEN Intersected(rect, BoundingRect(w.v.pixmapItem))
                 ELSE rect
             removed == IF w.v.rectItem # None THEN SceneRemoveRect(w) ELSE w
             drawn == [removed EXCEPT !.v.rectItem = constrained,
                                      !.v.sceneRects = @ + 1]
         IN  EmitCanCropToRect(EmitCanZoomToRect(drawn, TRUE),
                               w.v.pixmapItem # NoImage)
    ELSE w

\* Constants.ZOOM_SCALE_FACTOR = 1.05, as <<numerator, denominator>>
ZOOM_SCALE_FACTOR == <<105, 100>>

RECURSIVE GCD(_, _)
GCD(a, b) == IF b = 0 THEN a ELSE GCD(b, a % b)

\* QGraphicsView.scale(sx, sy) with sx = sy = factor: the transform is
\* multiplied by the factor (the fraction is kept in lowest terms)
Scale(w, factor) ==
    LET n == w.v.wheel[1] * factor[1]
        d == w.v.wheel[2] * factor[2]
    IN  [w EXCEPT !.v.wheel = <<n \div GCD(n, d), d \div GCD(n, d)>>,
                  !.v.fitTo = None]

\* The scale is at most MaxNotch notches of the wheel away from 1
WithinNotches(wheel) ==
    LET numerator == ZOOM_SCALE_FACTOR[1]
                         \div GCD(ZOOM_SCALE_FACTOR[1], ZOOM_SCALE_FACTOR[2])
    IN  wheel[1] <= numerator ^ MaxNotch /\ wheel[2] <= numerator ^ MaxNotch

\* A variant of wheelEvent for which the view is zoomed only while the scale
\* differs from that of the last fitInView
WheelEventUnzoomAtOne(w, deltaY) ==
    IF deltaY = 0 THEN w
    ELSE LET scaled == Scale(w, IF deltaY > 0 THEN ZOOM_SCALE_FACTOR
                                ELSE <<ZOOM_SCALE_FACTOR[2], ZOOM_SCALE_FACTOR[1]>>)
         IN  EmitResetZoomEnable(
                 [scaled EXCEPT !.v.zoomed = (scaled.v.wheel # <<1, 1>>)],
                 scaled.v.wheel # <<1, 1>>)

\* FullImage.wheelEvent: deltaY is the sign of angleDelta().y()
WheelEvent(w, deltaY) ==
    IF deltaY > 0
    THEN EmitResetZoomEnable(
             [Scale(w, ZOOM_SCALE_FACTOR) EXCEPT !.v.zoomed = TRUE], TRUE)
    ELSE IF deltaY < 0
    THEN EmitResetZoomEnable(
             [Scale(w, <<ZOOM_SCALE_FACTOR[2], ZOOM_SCALE_FACTOR[1]>>)
                 EXCEPT !.v.zoomed = TRUE], TRUE)
    ELSE w

\* FullImage.resizeEvent, the widget becoming of the given size: line 590
\* raises AttributeError when _oldSceneCentre has never been assigned.  The
\* base class keeps the top left corner of the view where it is.
ResizeEvent(w, size) ==
    LET resized == [w EXCEPT !.v.viewport = size, !.v.raised = FALSE]
    IN  IF ~w.v.zoomed
        THEN IF w.v.pixmapItem # NoImage \/ w.v.videoItem
             THEN FitInView(resized) ELSE resized
        ELSE IF w.v.oldSceneCentre = None
             THEN [resized EXCEPT !.v.raised = TRUE]
             ELSE CenterOn(resized, w.v.oldSceneCentre)

(***************************************************************************)
(* MainWindow, as far as the viewer is concerned.                          *)
(***************************************************************************)
\* MainWindow._updateMenu
UpdateMenu(w, imageMaximised) ==
    IF imageMaximised
    THEN [w EXCEPT !.m.menus = TRUE, !.m.resetZoom = FALSE,
                   !.m.zoomToRect = FALSE, !.m.cropToRect = FALSE,
                   !.m.save = FALSE, !.m.undo = FALSE]
    ELSE [w EXCEPT !.m.menus = FALSE]

\* MainWindow._MaximiseImage
MaximiseImage(w, imagePath) == InitialiseView(UpdateMenu(w, TRUE), imagePath)

\* list.index(x): the first position holding x, counted from 0
IndexOf(list, x) ==
    (CHOOSE i \in 1..Len(list) :
        list[i] = x /\ \A j \in 1..(i - 1) : list[j] # x) - 1

\* A variant of _nextImage that stays on the last file
NextIndexStays(index, length) == IF index + 1 >= length THEN index ELSE index + 1

\* MainWindow._nextImage: the new index
NextIndex(index, length) == IF index + 1 >= length THEN 0 ELSE index + 1

\* MainWindow._prevImage: the new index
PrevIndex(index, length) == IF index - 1 < 0 THEN length - 1 ELSE index - 1

(***************************************************************************)
(* Thumbnail.  th.cells maps the identity of each live Thumbnail object to *)
(* its fields; th.queue is the work queue of Thumbnail._executor and       *)
(* th.workers its threads.  A task is [kind, cell]: kind "load" runs       *)
(* _LoadImageInThread and kind "wait" runs _waitForCancellation.           *)
(***************************************************************************)
\* MainWindow.__init__: self._thumbnailsPerRow = 8
thumbnailsPerRow == 8

\* A pool thread with nothing to run; local is the QPixmap of ResizeImage,
\* saw the history of whether a test of the task found _loadCancelled set
WorkerIdle ==
    [kind |-> "none", cell |-> 0, at |-> "idle", local |-> "null", saw |-> FALSE]

\* The class attributes of Thumbnail and no Thumbnail object
ThInit ==
    [cells |-> <<>>, queue |-> <<>>,
     workers |-> [w \in 1..MaxWorkers |-> WorkerIdle],
     thumbnailSize |-> 0, initialised |-> FALSE]

\* Path.stem, as the name it is taken from
Stem(path) == IF path = <<>> THEN "" ELSE Last(path)

\* Image.open(path) succeeds: the file holds a picture, which an entry of
\* the file system marked corrupt does not
Decodable(fsys, path) ==
    /\ IsFile(fsys, path) /\ Lower(Suffix(path)) \in IMAGE_EXTENSIONS
    /\ \A i \in 1..Len(fsys[Parent(path)]) :
           fsys[Parent(path)][i].name = Last(path) =>
               "corrupt" \notin DOMAIN fsys[Parent(path)][i]

\* Thumbnail.__init__ up to the call of SetDefaultImage
\* (exception: the future of the load holds an exception the task raised)
CellInit(imagePath, itemNumber, thumbnailSize) ==
    [path |-> imagePath, item |-> itemNumber, minSize |-> thumbnailSize,
     currentImage |-> "none", qtImage |-> FALSE, loadFuture |-> FALSE,
     state |-> "none", loadCancelled |-> FALSE, pixmap |-> "none",
     opacity |-> 100, text |-> "", highlighted |-> FALSE, queued |-> 0,
     cancelReturned |-> FALSE, cancelledPending |-> FALSE,
     exception |-> FALSE]

\* Thumbnail.SetDefaultImage, the class being initialised; a cell whose
\* state is "pending" has had its load submitted by _LoadImage
SetDefaultImage(fsys, cell) ==
    LET shown ==
            IF IsFile(fsys, cell.path)
            THEN IF Suffix(cell.path) \in VIDEO_EXTENSIONS
                 THEN [cell EXCEPT !.pixmap = "video", !.currentImage = "video"]
                 ELSE [cell EXCEPT !.pixmap = "default", !.opacity = 20,
                                   !.loadFuture = TRUE, !.state = "pending"]
            ELSE [cell EXCEPT !.pixmap = "folder", !.currentImage = "folder"]
    IN  [shown EXCEPT !.text = Stem(cell.path)]

\* Thumbnail(imagePath, itemNumber)
NewThumbnail(fsys, imagePath, itemNumber, thumbnailSize) ==
    SetDefaultImage(fsys, CellInit(imagePath, itemNumber, thumbnailSize))

\* bool(QPixmap): a null pixmap is false
Truthy(pixmap) == pixmap \notin {"none", "null"}

\* One statement of _LoadImageInThread and of the ResizeImage it calls, run
\* by a thread standing at `at` with ResizeImage's pixmap in `local`: the
\* cell, the place and the pixmap after it.  Each test of _loadCancelled is
\* a statement of its own, and so is what it guards.
LoadStatement(fsys, cell, at, local, thumbnailSize) ==
    LET Go(c, next, l) == [cell |-> c, at |-> next, local |-> l]
        Test(yes, no) == Go(cell, IF ~cell.loadCancelled THEN yes ELSE no, local)
    IN  CASE at = "test300" -> Test("open305", "test320")
          [] at = "open305" ->
                IF Decodable(fsys, cell.path)
                THEN Go([cell EXCEPT !.qtImage = TRUE], "test320", local)
                ELSE Go(cell, "raised", local)
          [] at = "test320" -> Test("test328", "return")
          [] at = "test328" -> Test("size330", "test336")
          [] at = "size330" ->
                Go([cell EXCEPT !.minSize = thumbnailSize], "test336", local)
          [] at = "test336" -> Test("convert338", "test349")
          [] at = "convert338" ->
                Go(cell, "test349",
                   IF cell.qtImage THEN "image"
                   ELSE IF IsFile(fsys, cell.path) THEN "video"
                   ELSE IF IsDir(fsys, cell.path) THEN "folder"
                   ELSE "null")
          [] at = "test349" -> Test("scale351", "test354")
          [] at = "scale351" ->
                Go([cell EXCEPT !.currentImage = local], "test354", local)
          [] at = "test354" -> Test("text356", "test358")
          [] at = "text356" ->
                Go([cell EXCEPT !.text = Stem(cell.path)], "test358", local)
          [] at = "test358" ->
                Go(cell, IF Truthy(cell.currentImage) /\ ~cell.loadCancelled
                         THEN "pixmap360" ELSE "return", local)
          [] at = "pixmap360" ->
                Go([cell EXCEPT !.pixmap = cell.currentImage], "emit366", local)
          [] at = "emit366" ->
                Go([cell EXCEPT !.queued = @ + 1], "return", local)

\* The places at which the task reads _loadCancelled
TestPlaces ==
    {"test300", "test320", "test328", "test336", "test349", "test354", "test358"}

\* Future.done()
FutureDone(cell) == cell.state \in {"finished", "cancelled"}

\* CancelLoad that leaves _loadCancelled as it is
CancelLoadNoFlag(cell) ==
    [cell EXCEPT !.cancelledPending = (cell.state = "pending")]

\* Thumbnail.CancelLoad, its first statement
CancelLoadFlag(cell) ==
    [cell EXCEPT !.loadCancelled = TRUE,
                 !.cancelledPending = (cell.state = "pending")]

\* A variant of Future.cancel() that cancels nothing
FutureCancelRefuses(cell) == cell

\* Future.cancel(): a pending future becomes cancelled; the call returns
\* TRUE for it and for a cancelled one, FALSE for a running or finished one
FutureCancel(cell) ==
    IF cell.state = "pending" THEN [cell EXCEPT !.state = "cancelled"] ELSE cell

\* Thumbnail.CancelLoad, lines 390-395, on cell id: the thumbnail objects
\* and the queue after it
CancelLoadFuture(t, id) ==
    LET cell == t.cells[id]
        tried == FutureCancel(cell)
        returned == [tried EXCEPT !.cancelReturned = TRUE]
    IN  IF cell.loadFuture /\ tried.state # "cancelled"
        THEN [t EXCEPT !.cells[id] = returned,
                       !.queue = Append(@, [kind |-> "wait", cell |-> id])]
        ELSE [t EXCEPT !.cells[id] = returned]

\* A variant that takes the cancellation back
ImageLoadedUncancel(cell) ==
    IF cell.loadFuture
    THEN [cell EXCEPT !.opacity = 100, !.loadCancelled = FALSE] ELSE cell

\* Thumbnail.ImageLoaded once the future is done or absent
ImageLoaded(cell) ==
    IF cell.loadFuture THEN [cell EXCEPT !.opacity = 100] ELSE cell

\* The objects something still refers to: the thumbnail list, the queued
\* and the running tasks (each holds a bound method of its Thumbnail)
Referenced(t, thumbnailList) ==
    {thumbnailList[i] : i \in 1..Len(thumbnailList)}
        \cup {t.queue[i].cell : i \in 1..Len(t.queue)}
        \cup {t.workers[w].cell : w \in {v \in DOMAIN t.workers :
                                           t.workers[v].kind # "none"}}

\* Python frees an object when nothing refers to it any more; the signals
\* queued for it go with it
Collected(t, thumbnailList) ==
    [t EXCEPT !.cells =
        [id \in DOMAIN t.cells \cap Referenced(t, thumbnailList) |-> t.cells[id]]]

\* The identities of n new objects
RECURSIVE FreshIds(_, _)
FreshIds(used, n) ==
    IF n = 0 THEN <<>>
    ELSE LET id == CHOOSE i \in 1..(Cardinality(used) + 1) : i \notin used
         IN  <<id>> \o FreshIds(used \cup {id}, n - 1)

(***************************************************************************)
(* MainWindow, the browser.  The window is [width, height, margins]: its   *)
(* width, the height of the scroll area's viewport and the left and right  *)
(* margins of the grid together, in units of which a picture label takes   *)
(* thumbnailSize and the text under it one.                                *)
(***************************************************************************)
\* MainWindow.SetLabels, line 343, and MainWindow.resizeEvent, line 622
ThumbnailSizeOf(window) ==
    (window.width \div thumbnailsPerRow) - window.margins

\* The rows the grid takes for n thumbnails (lines 357-358)
Rows(n) == (n + thumbnailsPerRow - 1) \div thumbnailsPerRow

\* QScrollBar.maximum() of the scroll area: what of the grid does not fit
\* in the viewport
ScrollMaximum(n, window, thumbnailSize) ==
    Max(0, Rows(n) * (thumbnailSize + 1) - window.height)

\* QAbstractSlider.setValue(value): the value is bounded to the range
SetValue(m, value) == [m EXCEPT !.scroll = Max(0, Min(value, m.scrollMax))]

\* The scroll area lays the grid out anew: the range follows the content
\* and the value stays within it
LaidOut(m, thumbnailSize) ==
    LET ranged == [m EXCEPT !.scrollMax =
                       ScrollMaximum(Len(m.thumbnailList), m.window, thumbnailSize)]
    IN  SetValue(ranged, m.scroll)

\* Path.home() and Path.exists()
Home == <<"home">>

Exists(fsys, path) == IsDir(fsys, path) \/ IsFile(fsys, path)

\* MainWindow.__init__, lines 96-101: the default path
DefaultPath(fsys) ==
    IF Exists(fsys, Append(Home, "Pictures"))
    THEN Append(Home, "Pictures") ELSE Home

\* MainWindow.__init__
MainWindowInit(currentPath, window) ==
    [imageMaximised |-> FALSE, currentPath |-> currentPath, imageList |-> <<>>,
     currentImageIndex |-> 0, thumbnailList |-> <<>>,
     currentHighlightedThumbnail |-> 0, folderInfoDict |-> <<>>,
     fileOpenReceived |-> FALSE, startUpTimer |-> TRUE, resetPending |-> 0,
     scroll |-> 0, scrollMax |-> 0, window |-> window]

\* Thumbnail.InitialiseDefaultImage(thumbnailSize)
InitialiseDefaultImage(t, thumbnailSize) ==
    IF ~t.initialised
    THEN [t EXCEPT !.thumbnailSize = thumbnailSize, !.initialised = TRUE]
    ELSE t

\* The load tasks _LoadImage submits for the new thumbnails, in their order
RECURSIVE LoadTasks(_, _)
LoadTasks(cells, ids) ==
    IF ids = <<>> THEN <<>>
    ELSE (IF cells[Head(ids)].state = "pending"
          THEN <<[kind |-> "load", cell |-> Head(ids)]>> ELSE <<>>)
             \o LoadTasks(cells, Tail(ids))

\* MainWindow.SetLabels, lines 330-385, the old thumbnails having been
\* taken from the grid: [m, t], the window and the thumbnails after it
SetLabelsCreate(fsys, m, t) ==
    LET cleared == Collected(t, <<>>)
        fileList == FileList(fsys, m.currentPath)
        sized == InitialiseDefaultImage(cleared, ThumbnailSizeOf(m.window))
        ids == FreshIds(DOMAIN sized.cells, Len(fileList))
        made == [i \in 1..Len(fileList) |->
                    NewThumbnail(fsys, fileList[i], i - 1, sized.thumbnailSize)]
        cells == [id \in DOMAIN sized.cells \cup {ids[i] : i \in 1..Len(ids)} |->
                    IF id \in DOMAIN sized.cells THEN sized.cells[id]
                    ELSE made[CHOOSE i \in 1..Len(ids) : ids[i] = id]]
        listed == [m EXCEPT !.imageList = GetImagePathList(fsys, m.currentPath),
                            !.thumbnailList = ids,
                            !.resetPending = @ + 1]
    IN  [m |-> LaidOut(listed, sized.thumbnailSize),
         t |-> [sized EXCEPT !.cells = cells,
                             !.queue = @ \o LoadTasks(cells, ids)]]

\* FolderInfo(self._currentPath, self._currentHighlightedThumbnail,
\* self._scroll.verticalScrollBar().value())
FolderInfo(m) ==
    [highlightedItem |-> m.currentHighlightedThumbnail, scrollAmount |-> m.scroll]

\* OpenItem for a directory that records the index and no scroll offset
OpenFolderForgetScroll(m, path) ==
    [m EXCEPT !.folderInfoDict =
                  [p \in DOMAIN m.folderInfoDict \cup {m.currentPath} |->
                      IF p = m.currentPath
                      THEN [highlightedItem |-> m.currentHighlightedThumbnail,
                            scrollAmount |-> 0]
                      ELSE m.folderInfoDict[p]],
              !.currentPath = path]

\* MainWindow.OpenItem for a directory, lines 407-417
OpenFolder(m, path) ==
    [m EXCEPT !.folderInfoDict =
                  [p \in DOMAIN m.folderInfoDict \cup {m.currentPath} |->
                      IF p = m.currentPath THEN FolderInfo(m)
                      ELSE m.folderInfoDict[p]],
              !.currentPath = path]

\* MainWindow.resetScroll, lines 642-660
ResetScrollValue(m) ==
    IF m.currentPath \in DOMAIN m.folderInfoDict
    THEN [SetValue(m, m.folderInfoDict[m.currentPath].scrollAmount)
            EXCEPT !.currentHighlightedThumbnail =
                       m.folderInfoDict[m.currentPath].highlightedItem]
    ELSE [SetValue(m, 0) EXCEPT !.currentHighlightedThumbnail = 0]

\* self._thumbnailList[index].highlighted = value; the caller has found the
\* index within the list
SetHighlighted(t, thumbnailList, index, value) ==
    [t EXCEPT !.cells[thumbnailList[index + 1]].highlighted = value]

\* The new index of MainWindow._FileBrowserKeyEvent for the four arrow keys
KeyIndex(key, index, length) ==
    CASE key = "Left" -> Max(0, index - 1)
      [] key = "Right" -> IF index + 1 >= length THEN length - 1 ELSE index + 1
      [] key = "Up" -> Max(0, index - thumbnailsPerRow)
      [] key = "Down" -> IF index + thumbnailsPerRow >= length
                         THEN length - 1 ELSE index + thumbnailsPerRow

\* Thumbnail.ResizeImage from the statement at `at` to its end
RECURSIVE ResizeImageFrom(_, _, _, _, _)
ResizeImageFrom(fsys, cell, at, local, thumbnailSize) ==
    IF at = "return" THEN cell
    ELSE LET next == LoadStatement(fsys, cell, at, local, thumbnailSize)
         IN  ResizeImageFrom(fsys, next.cell, next.at, next.local, thumbnailSize)

\* Thumbnail.ResizeImage called by the UI thread on a thumbnail that has no
\* load in flight: the signal it emits reaches ImageLoaded at once
ResizeImage(fsys, cell, thumbnailSize) ==
    LET resized == ResizeImageFrom(fsys, cell, "test328", "null", thumbnailSize)
    IN  IF resized.queued > cell.queued
        THEN [ImageLoaded(resized) EXCEPT !.queued = cell.queued]
        ELSE resized

\* MainWindow.ShowImage, line 455: list.index raises for a path that is
\* not in the list
ShowImageIndex(m, imagePath) ==
    IF \E i \in 1..Len(m.imageList) : m.imageList[i] = imagePath
    THEN [m EXCEPT !.imageMaximised = TRUE,
                   !.currentImageIndex = IndexOf(m.imageList, imagePath)]
    ELSE [m EXCEPT !.imageMaximised = TRUE]

(***************************************************************************)
(* The viewer's events.  Menu commands reach their slots only while the    *)
(* menus and the action are enabled; the adjust dialog is modal, so while  *)
(* it executes only its own sliders and buttons are served.                *)
(***************************************************************************)
World == [v |-> view, m |-> menu]

Becomes(w) == view' = w.v /\ menu' = w.m

Idle == [at |-> "idle", op |-> [name |-> "", arg |-> 0], k |-> 0, path |-> <<>>]

DialogClosed == [open |-> FALSE, colour |-> 10, contrast |-> 10, brightness |-> 10]

UiReady == pc.at = "idle" /\ ~dialog.open

MenuCommand(enabled) == UiReady /\ menu.menus /\ enabled

InViewer == UiReady /\ mw.imageMaximised

NoPre ==
    [image |-> NoImage, len |-> 0, saved |-> FALSE, shown |-> NoImage,
     rect |-> None]

\* No resetScroll has run yet
NoReset ==
    [done |-> FALSE, known |-> FALSE, left |-> [h |-> 0, s |-> 0],
     scroll |-> 0, h |-> 0, max |-> 0]

\* No adjust dialog is open
NoSession ==
    [is |-> FALSE, image |-> NoImage, buffer |-> <<>>, saved |-> FALSE]

GhostInit ==
    [orig |-> NoImage, n |-> 0, u |-> 0, ok |-> FALSE, pre |-> NoPre,
     left |-> <<>>, reset |-> NoReset, stale |-> 0, session |-> NoSession]

\* The history after the adjust dialog has opened on the view v
GhostSession(g, v) ==
    [g EXCEPT !.session = [is |-> TRUE, image |-> v.pilImage,
                           buffer |-> v.undoBuffer,
                           saved |-> v.imageCanBeSaved]]

\* The history after a media file has been opened
GhostOpened(g, w) ==
    [g EXCEPT !.orig = w.v.pixmapItem, !.n = 0, !.u = 0,
              !.ok = w.v.pixmapItem # NoImage, !.pre = NoPre]

\* The history after the folder of m has been left with index h highlighted
GhostLeft(g, m, h) ==
    [g EXCEPT !.left = [p \in DOMAIN g.left \cup {m.currentPath} |->
                           IF p = m.currentPath
                           THEN [h |-> h, s |-> m.scroll] ELSE g.left[p]]]

\* The history after resetScroll has taken the window from `before` to
\* `after`: what was recorded for the folder when it was last left, and the
\* scroll bar and the index the folder has been given
GhostReset(g, before, after) ==
    LET known == before.currentPath \in DOMAIN g.left
    IN  [g EXCEPT !.reset =
            [done |-> TRUE, known |-> known,
             left |-> IF known THEN g.left[before.currentPath]
                      ELSE [h |-> 0, s |-> 0],
             scroll |-> after.scroll, h |-> after.currentHighlightedThumbnail,
             max |-> after.scrollMax]]

\* The history after one more mutating command
GhostCommand(g, v) ==
    LET counted == IF g.ok /\ g.u = 0 /\ g.n <= MaxUndo
                   THEN [g EXCEPT !.n = @ + 1]
                   ELSE [g EXCEPT !.ok = FALSE, !.n = 0, !.u = 0]
    IN  [counted EXCEPT !.pre = [image |-> v.pilImage, len |-> Len(v.undoBuffer),
                                 saved |-> v.imageCanBeSaved,
                                 shown |-> v.pixmapItem, rect |-> v.rectItem]]

\* The history after one more Undo command
GhostUndo(g) ==
    IF g.ok /\ g.u < g.n THEN [g EXCEPT !.u = @ + 1]
    ELSE [g EXCEPT !.ok = FALSE, !.n = 0, !.u = 0]

\* The history after a slider preview: it ends a run of undos
GhostPreview(g) ==
    IF g.u > 0 THEN [g EXCEPT !.ok = FALSE, !.n = 0, !.u = 0] ELSE g

\* MainWindow._nextImage
NextImage ==
    /\ MenuCommand(TRUE)
    /\ LET index == NextIndex(mw.currentImageIndex, Len(mw.imageList))
           w == MaximiseImage(World, mw.imageList[index + 1])
       IN  /\ Becomes(w)
           /\ gh' = GhostOpened(gh, w)
           /\ mw' = [mw EXCEPT !.imageMaximised = TRUE, !.currentImageIndex = index]
    /\ UNCHANGED <<fs, dialog, pc, sr, th>>

\* MainWindow._prevImage
PrevImage ==
    /\ MenuCommand(TRUE)
    /\ LET index == PrevIndex(mw.currentImageIndex, Len(mw.imageList))
           w == MaximiseImage(World, mw.imageList[index + 1])
       IN  /\ Becomes(w)
           /\ gh' = GhostOpened(gh, w)
           /\ mw' = [mw EXCEPT !.imageMaximised = TRUE, !.currentImageIndex = index]
    /\ UNCHANGED <<fs, dialog, pc, sr, th>>

\* MainWindow._returnToBrowser
ReturnToBrowser ==
    /\ MenuCommand(TRUE)
    /\ Becomes(UpdateMenu(World, FALSE))
    /\ mw' = [mw EXCEPT !.imageMaximised = FALSE]
    /\ UNCHANGED <<fs, dialog, pc, gh, sr, th>>

\* Whether the menu item of a decorated method is enabled
OpEnabled(op) ==
    IF op.name = "CropImage" THEN menu.cropToRect ELSE menu.imageActions

\* A decorated method is called with an image present: the decorator appends
\* the current image to the undo buffer
InvokePush(op) ==
    /\ MenuCommand(OpEnabled(op))
    /\ view.pilImage # NoImage
    /\ Len(view.undoBuffer) < MaxUndo
    /\ Len(view.pilImage.ops) < MaxHistory
    /\ Becomes(UndoAppend(World))
    /\ pc' = [Idle EXCEPT !.at = "appended", !.op = op]
    /\ gh' = GhostCommand(gh, view)
    /\ UNCHANGED <<fs, mw, dialog, sr, th>>

\* A decorated method is called with no image: the decorator does nothing
InvokeNoImage(op) ==
    /\ MenuCommand(OpEnabled(op))
    /\ view.pilImage = NoImage
    /\ gh' = GhostCommand(gh, view)
    /\ UNCHANGED <<fs, view, menu, mw, dialog, pc, sr, th>>

\* The decorator calls the method
StepCallFunc ==
    /\ pc.at = "appended"
    /\ Becomes(UndoCallFunc(World, pc.op))
    /\ pc' = [pc EXCEPT !.at = "called"]
    /\ UNCHANGED <<fs, mw, dialog, gh, sr, th>>

\* The decorator updates the pixmap
StepUpdatePixmap ==
    /\ pc.at = "called"
    /\ Becomes(UndoUpdatePixmap(World))
    /\ pc' = [pc EXCEPT !.at = "shown"]
    /\ UNCHANGED <<fs, mw, dialog, gh, sr, th>>

\* The decorator sets _imageCanBeSaved
StepSetCanBeSaved ==
    /\ pc.at = "shown"
    /\ Becomes(UndoSetCanBeSaved(World))
    /\ pc' = [pc EXCEPT !.at = "flagged"]
    /\ UNCHANGED <<fs, mw, dialog, gh, sr, th>>

\* The decorator emits imageModifiedSignal and returns; SliderDialog.accept
\* then closes the dialog
StepEmitModified ==
    /\ pc.at = "flagged"
    /\ Becomes(UndoEmitModified(World))
    /\ pc' = Idle
    /\ dialog' = DialogClosed
    /\ gh' = [gh EXCEPT !.pre = NoPre, !.session = NoSession]
    /\ UNCHANGED <<fs, mw, sr, th>>

\* The Undo menu item: FullImage.UndoLastChange
Undo ==
    /\ MenuCommand(menu.undo)
    /\ Becomes(UndoLastChange(World))
    /\ gh' = GhostUndo(gh)
    /\ UNCHANGED <<fs, mw, dialog, pc, sr, th>>

\* The Save menu item: FullImage.SaveImage
Save(now) ==
    /\ MenuCommand(menu.save)
    /\ Becomes(SaveImage(World, now))
    /\ UNCHANGED <<fs, mw, dialog, pc, gh, sr, th>>

\* The Adjust Image menu item: FullImage._openAdjustDialog creates a
\* SliderDialog, its three sliders at 10, and executes it
OpenAdjustDialog ==
    /\ MenuCommand(menu.imageActions)
    /\ dialog' = [DialogClosed EXCEPT !.open = TRUE]
    /\ gh' = GhostSession(gh, view)
    /\ UNCHANGED <<fs, view, menu, mw, pc, sr, th>>

\* A slider is moved to a new value: SliderDialog._sliderChanged sends the
\* three values to FullImage.SliderChanged (a factor is held in tenths, as
\* the slider holds it)
SliderMoved(slider, value) ==
    /\ dialog.open /\ pc.at = "idle"
    /\ dialog[slider] # value
    /\ Len(view.pilImage.ops) + 3 <= MaxHistory
    /\ LET moved == [dialog EXCEPT ![slider] = value]
       IN  /\ dialog' = moved
           /\ Becomes(SliderChanged(World, moved.colour, moved.contrast,
                                    moved.brightness))
    /\ gh' = GhostPreview(gh)
    /\ UNCHANGED <<fs, mw, pc, sr, th>>

\* OK with an image present: SliderDialog.accept emits acceptedSignal,
\* SliderChangeAccepted calls the decorated UpdateImage
AcceptPush ==
    /\ dialog.open /\ pc.at = "idle"
    /\ view.pilImage # NoImage
    /\ Len(view.undoBuffer) < MaxUndo
    /\ Becomes(UndoAppend(World))
    /\ pc' = [Idle EXCEPT !.at = "appended",
                           !.op = [name |-> "UpdateImage", arg |-> 0]]
    /\ gh' = GhostCommand(gh, view)
    /\ UNCHANGED <<fs, mw, dialog, sr, th>>

\* OK with no image: the decorator does nothing and the dialog closes
AcceptNoImage ==
    /\ dialog.open /\ pc.at = "idle"
    /\ view.pilImage = NoImage
    /\ dialog' = DialogClosed
    /\ gh' = [GhostCommand(gh, view) EXCEPT !.session = NoSession]
    /\ UNCHANGED <<fs, view, menu, mw, pc, sr, th>>

\* Cancel or Escape: SliderDialog.reject emits rejectedSignal and closes
Reject ==
    /\ dialog.open /\ pc.at = "idle"
    /\ Becomes(SliderChangeRejected(World))
    /\ dialog' = DialogClosed
    /\ gh' = [gh EXCEPT !.session = NoSession]
    /\ UNCHANGED <<fs, mw, pc, sr, th>>

\* The Zoom to Rect menu item
ZoomToRect ==
    /\ MenuCommand(menu.zoomToRect)
    /\ Becomes(ZoomImage(World))
    /\ UNCHANGED <<fs, mw, dialog, pc, gh, sr, th>>

\* The Reset Zoom menu item
ResetZoomCommand ==
    /\ MenuCommand(menu.resetZoom)
    /\ Becomes(ResetZoom(World))
    /\ UNCHANGED <<fs, mw, dialog, pc, gh, sr, th>>

\* The Meta key goes down over the viewer
KeyPress(cursorPos) ==
    /\ InViewer
    /\ Becomes(KeyPressMeta(World, cursorPos))
    /\ UNCHANGED <<fs, mw, dialog, pc, gh, sr, th>>

\* The Meta key goes up
KeyRelease ==
    /\ InViewer
    /\ view.ctrlHeld
    /\ Becomes(KeyReleaseMeta(World))
    /\ UNCHANGED <<fs, mw, dialog, pc, gh, sr, th>>

\* A mouse button goes down over the viewer
MousePressed(leftButton, metaModifier) ==
    /\ InViewer
    /\ Becomes(MousePress(World, leftButton, metaModifier))
    /\ UNCHANGED <<fs, mw, dialog, pc, gh, sr, th>>

\* The pointer moves over the viewer
MouseMoved(cursorPos) ==
    /\ InViewer
    /\ Becomes(MouseMove(World, cursorPos))
    /\ UNCHANGED <<fs, mw, dialog, pc, gh, sr, th>>

\* The wheel turns over the viewer
Wheel(deltaY) ==
    /\ InViewer
    /\ WithinNotches(WheelEvent(World, deltaY).v.wheel)
    /\ Becomes(WheelEvent(World, deltaY))
    /\ UNCHANGED <<fs, mw, dialog, pc, gh, sr, th>>

\* The view is panned
Scrolled(dx, dy) ==
    /\ InViewer
    /\ Becomes(ScrollContentsBy(World, dx, dy))
    /\ UNCHANGED <<fs, mw, dialog, pc, gh, sr, th>>

(***************************************************************************)
(* The browser's events.  MainWindow.SetLabels cancels the load of each    *)
(* old thumbnail in turn, then builds the new ones; the pool threads run   *)
(* between the two statements of each CancelLoad, so the UI thread goes    *)
(* through SetLabels a statement at a time: pc.at is "cancelFlag" before   *)
(* line 387 for thumbnail pc.k of the list, "cancelFuture" before line 390 *)
(* for it, and "create" before line 330.  pc.op.name is the handler that   *)
(* called SetLabels and pc.path the file FileOpened then shows.            *)
(***************************************************************************)
InBrowser == UiReady /\ ~mw.imageMaximised

\* The thumbnails the UI thread refers to
UiRefs ==
    mw.thumbnailList \o (IF pc.at = "result373" THEN <<pc.k>> ELSE <<>>)

\* A variant that goes past the loop over the old grid
EnterSetLabelsNoCancel(handler, path) ==
    [Idle EXCEPT !.at = "create",
                 !.op = [name |-> handler, arg |-> 0], !.k = 1, !.path = path]

\* The UI thread enters SetLabels
EnterSetLabels(handler, path) ==
    [Idle EXCEPT !.at = IF mw.thumbnailList = <<>> THEN "create" ELSE "cancelFlag",
                 !.op = [name |-> handler, arg |-> 0], !.k = 1, !.path = path]

\* Thumbnails that have left the list are alive
StaleThumbnails ==
    DOMAIN th.cells \ {mw.thumbnailList[i] : i \in 1..Len(mw.thumbnailList)} # {}

\* A folder may be listed: among thumbnails that are still alive no more
\* often, and with no more calls of resetScroll waiting for the event
\* loop, than the bounds allow
RoomForThumbnails ==
    /\ StaleThumbnails => gh.stale < MaxStale
    /\ mw.resetPending < MaxPending

\* The history after one more listing has begun
GhostListing(g) ==
    IF StaleThumbnails THEN [g EXCEPT !.stale = @ + 1] ELSE g

\* A variant that lists the default folder whatever has been opened
StartUpTimerAlways ==
    /\ pc.at = "idle" /\ mw.startUpTimer
    /\ mw' = [mw EXCEPT !.startUpTimer = FALSE]
    /\ pc' = EnterSetLabels("StartUpTimerExpired", <<>>)
    /\ UNCHANGED <<fs, view, menu, dialog, gh, sr, th>>

\* MainWindow.StartUpTimerExpired, 150 ms after construction
StartUpTimerExpired ==
    /\ pc.at = "idle" /\ mw.startUpTimer
    /\ mw' = [mw EXCEPT !.startUpTimer = FALSE]
    /\ pc' = IF ~mw.fileOpenReceived
             THEN EnterSetLabels("StartUpTimerExpired", <<>>) ELSE pc
    /\ UNCHANGED <<fs, view, menu, dialog, gh, sr, th>>

\* MainWindow.FileOpened(imagePath), lines 427-436
FileOpened(imagePath) ==
    /\ UiReady /\ RoomForThumbnails
    /\ mw' = [mw EXCEPT !.fileOpenReceived = TRUE,
                        !.currentPath = Parent(imagePath)]
    /\ pc' = EnterSetLabels("FileOpened", imagePath)
    /\ gh' = GhostListing(gh)
    /\ UNCHANGED <<fs, view, menu, dialog, sr, th>>

\* MainWindow.OpenItem(path) after the handler has changed the window to m
\* and the thumbnails to t, index h being highlighted
OpenItem(m, t, path, h) ==
    IF IsDir(fs, path)
    THEN /\ mw' = OpenFolder(m, path)
         /\ th' = t
         /\ pc' = EnterSetLabels("OpenItem", <<>>)
         /\ gh' = GhostListing(GhostLeft(gh, mw, h))
         /\ UNCHANGED <<view, menu>>
    ELSE LET w == MaximiseImage(World, path)
         IN  /\ Becomes(w)
             /\ mw' = ShowImageIndex(m, path)
             /\ th' = t
             /\ gh' = GhostOpened(gh, w)
             /\ UNCHANGED pc

\* MainWindow.thumbnailClicked for the thumbnail at place i of the list: the
\* first subscript raises IndexError when the highlighted index is beyond
\* the list
ThumbnailClicked(i) ==
    /\ InBrowser /\ RoomForThumbnails
    /\ i \in 1..Len(mw.thumbnailList)
    /\ IF mw.currentHighlightedThumbnail < Len(mw.thumbnailList)
       THEN LET thumbnail == th.cells[mw.thumbnailList[i]]
                off == SetHighlighted(th, mw.thumbnailList,
                                      mw.currentHighlightedThumbnail, FALSE)
                m == [mw EXCEPT !.currentHighlightedThumbnail = thumbnail.item]
                on == SetHighlighted(off, mw.thumbnailList, thumbnail.item, TRUE)
            IN  OpenItem(m, on, thumbnail.path, thumbnail.item)
       ELSE UNCHANGED <<view, menu, mw, pc, gh, th>>
    /\ UNCHANGED <<fs, dialog, sr>>

\* MainWindow._FileBrowserKeyEvent for an arrow key; ensureWidgetVisible
\* leaves the scroll bar at newScroll
ArrowKey(key, newScroll) ==
    /\ InBrowser
    /\ newScroll \in 0..mw.scrollMax
    /\ IF mw.currentHighlightedThumbnail < Len(mw.thumbnailList)
       THEN LET index == KeyIndex(key, mw.currentHighlightedThumbnail,
                                  Len(mw.thumbnailList))
                off == SetHighlighted(th, mw.thumbnailList,
                                      mw.currentHighlightedThumbnail, FALSE)
            IN  /\ th' = SetHighlighted(off, mw.thumbnailList, index, TRUE)
                /\ mw' = [mw EXCEPT !.currentHighlightedThumbnail = index,
                                    !.scroll = newScroll]
       ELSE UNCHANGED <<mw, th>>
    /\ UNCHANGED <<fs, view, menu, dialog, pc, gh, sr>>

\* MainWindow._FileBrowserKeyEvent for Key_Return
ReturnKey ==
    /\ InBrowser /\ RoomForThumbnails
    /\ IF mw.currentHighlightedThumbnail < Len(mw.thumbnailList)
       THEN OpenItem(mw, th,
                     th.cells[mw.thumbnailList[mw.currentHighlightedThumbnail + 1]].path,
                     mw.currentHighlightedThumbnail)
       ELSE UNCHANGED <<view, menu, mw, pc, gh, th>>
    /\ UNCHANGED <<fs, dialog, sr>>

\* SetLabels, line 325: CancelLoad sets _loadCancelled
StepCancelFlag ==
    /\ pc.at = "cancelFlag"
    /\ th' = [th EXCEPT !.cells[mw.thumbnailList[pc.k]] = CancelLoadFlag(@)]
    /\ pc' = [pc EXCEPT !.at = "cancelFuture"]
    /\ UNCHANGED <<fs, view, menu, mw, dialog, gh, sr>>

\* SetLabels, lines 325-328: CancelLoad tries to cancel the future and
\* returns; the widget leaves the grid
StepCancelFuture ==
    /\ pc.at = "cancelFuture"
    /\ th' = CancelLoadFuture(th, mw.thumbnailList[pc.k])
    /\ pc' = IF pc.k < Len(mw.thumbnailList)
             THEN [pc EXCEPT !.at = "cancelFlag", !.k = @ + 1]
             ELSE [pc EXCEPT !.at = "create"]
    /\ UNCHANGED <<fs, view, menu, mw, dialog, gh, sr>>

\* SetLabels, lines 330-385, and what remains of the handler that called it
StepCreate ==
    /\ pc.at = "create"
    /\ LET made == SetLabelsCreate(fs, mw, th)
       IN  /\ th' = made.t
           /\ IF pc.op.name = "FileOpened"
              THEN LET w == MaximiseImage(World, pc.path)
                   IN  /\ Becomes(w)
                       /\ mw' = ShowImageIndex(made.m, pc.path)
                       /\ gh' = GhostOpened(gh, w)
              ELSE /\ mw' = made.m
                   /\ UNCHANGED <<view, menu, gh>>
    /\ pc' = Idle
    /\ UNCHANGED <<fs, dialog, sr>>

\* MainWindow.resetScroll, queued by QTimer.singleShot(0, ...): line 663
\* raises IndexError when the recorded index is beyond the list
ResetScroll ==
    /\ pc.at = "idle" /\ mw.resetPending > 0
    /\ LET m == ResetScrollValue([mw EXCEPT !.resetPending = @ - 1])
       IN  /\ mw' = m
           /\ th' = IF m.currentHighlightedThumbnail < Len(m.thumbnailList)
                    THEN SetHighlighted(th, m.thumbnailList,
                                        m.currentHighlightedThumbnail, TRUE)
                    ELSE th
           /\ gh' = GhostReset(gh, mw, m)
    /\ UNCHANGED <<fs, view, menu, dialog, pc, sr>>

\* The user moves the scroll bar of the browser
UserScrolled(value) ==
    /\ InBrowser
    /\ value \in 0..mw.scrollMax /\ value # mw.scroll
    /\ mw' = SetValue(mw, value)
    /\ UNCHANGED <<fs, view, menu, dialog, pc, gh, sr, th>>

\* No thumbnail of the list has a load that is queued or running
NoLoadInFlight ==
    \A i \in 1..Len(mw.thumbnailList) :
        th.cells[mw.thumbnailList[i]].state \notin {"pending", "running"}

\* MainWindow.resizeEvent: the window becomes `window`
WindowResized(window) ==
    /\ pc.at = "idle" /\ NoLoadInFlight
    /\ window # mw.window
    /\ LET size == ThumbnailSizeOf(window)
           listed == {mw.thumbnailList[i] : i \in 1..Len(mw.thumbnailList)}
       IN  /\ th' = [th EXCEPT !.thumbnailSize = size,
                               !.cells = [id \in DOMAIN th.cells |->
                                   IF id \in listed
                                   THEN ResizeImage(fs, th.cells[id], size)
                                   ELSE th.cells[id]]]
           /\ mw' = LaidOut([mw EXCEPT !.window = window], size)
    /\ UNCHANGED <<fs, view, menu, dialog, pc, gh, sr>>

(***************************************************************************)
(* The threads of Thumbnail._executor.                                     *)
(***************************************************************************)
\* A thread takes the next task off the queue; a load whose future has been
\* cancelled is dropped, any other starts running
WorkerTake(w) ==
    /\ th.workers[w].kind = "none" /\ th.queue # <<>>
    /\ LET task == Head(th.queue)
           taken == [th EXCEPT !.queue = Tail(@)]
       IN  IF task.kind = "load"
           THEN IF th.cells[task.cell].state = "cancelled"
                THEN th' = Collected(taken, UiRefs)
                ELSE th' = [taken EXCEPT
                               !.cells[task.cell].state = "running",
                               !.workers[w] = [kind |-> "load", cell |-> task.cell,
                                               at |-> "test300", local |-> "null",
                                               saw |-> FALSE]]
           ELSE th' = [taken EXCEPT
                          !.workers[w] = [kind |-> "wait", cell |-> task.cell,
                                          at |-> "test398", local |-> "null",
                                          saw |-> FALSE]]
    /\ UNCHANGED <<fs, view, menu, mw, dialog, pc, gh, sr>>

\* A variant in which the statement also empties the folder information
WorkerStatementForgets(w) ==
    /\ th.workers[w].kind = "load"
    /\ th.workers[w].at \notin {"return", "raised"}
    /\ LET me == th.workers[w]
           next == LoadStatement(fs, th.cells[me.cell], me.at, me.local,
                                 th.thumbnailSize)
       IN  th' = [th EXCEPT !.cells[me.cell] = next.cell,
                            !.workers[w].at = next.at,
                            !.workers[w].local = next.local,
                            !.workers[w].saw =
                                @ \/ (me.at \in TestPlaces
                                         /\ th.cells[me.cell].loadCancelled)]
    /\ mw' = [mw EXCEPT !.folderInfoDict = <<>>]
    /\ UNCHANGED <<fs, view, menu, dialog, pc, gh, sr>>

\* A thread runs the next statement of _LoadImageInThread
WorkerStatement(w) ==
    /\ th.workers[w].kind = "load"
    /\ th.workers[w].at \notin {"return", "raised"}
    /\ LET me == th.workers[w]
           next == LoadStatement(fs, th.cells[me.cell], me.at, me.local,
                                 th.thumbnailSize)
       IN  th' = [th EXCEPT !.cells[me.cell] = next.cell,
                            !.workers[w].at = next.at,
                            !.workers[w].local = next.local,
                            !.workers[w].saw =
                                @ \/ (me.at \in TestPlaces
                                         /\ th.cells[me.cell].loadCancelled)]
    /\ UNCHANGED <<fs, view, menu, mw, dialog, pc, gh, sr>>

\* _LoadImageInThread returns or has raised: the future is finished
WorkerReturn(w) ==
    /\ th.workers[w].kind = "load"
    /\ th.workers[w].at \in {"return", "raised"}
    /\ th' = Collected([th EXCEPT !.cells[th.workers[w].cell].state = "finished",
                                  !.cells[th.workers[w].cell].exception =
                                      (th.workers[w].at = "raised"),
                                  !.workers[w] = WorkerIdle], UiRefs)
    /\ UNCHANGED <<fs, view, menu, mw, dialog, pc, gh, sr>>

\* _waitForCancellation, line 398
WaitTest(w) ==
    /\ th.workers[w].kind = "wait" /\ th.workers[w].at = "test398"
    /\ th' = IF th.cells[th.workers[w].cell].loadFuture
             THEN [th EXCEPT !.workers[w].at = "result403"]
             ELSE Collected([th EXCEPT !.workers[w] = WorkerIdle], UiRefs)
    /\ UNCHANGED <<fs, view, menu, mw, dialog, pc, gh, sr>>

\* _waitForCancellation, line 403: the load finishes within the second
WaitResult(w) ==
    /\ th.workers[w].kind = "wait" /\ th.workers[w].at = "result403"
    /\ FutureDone(th.cells[th.workers[w].cell])
    /\ th' = Collected([th EXCEPT !.workers[w] = WorkerIdle], UiRefs)
    /\ UNCHANGED <<fs, view, menu, mw, dialog, pc, gh, sr>>

\* _waitForCancellation, line 403: the second passes and result() raises
WaitTimeout(w) ==
    /\ th.workers[w].kind = "wait" /\ th.workers[w].at = "result403"
    /\ ~FutureDone(th.cells[th.workers[w].cell])
    /\ th' = Collected([th EXCEPT !.workers[w] = WorkerIdle], UiRefs)
    /\ UNCHANGED <<fs, view, menu, mw, dialog, pc, gh, sr>>

\* The loaded signal of thumbnail id, emitted by a pool thread, reaches
\* Thumbnail.ImageLoaded in the UI thread
ImageLoadedSlot(id) ==
    /\ pc.at = "idle"
    /\ id \in DOMAIN th.cells /\ th.cells[id].queued > 0
    /\ LET cell == [th.cells[id] EXCEPT !.queued = @ - 1]
       IN  IF cell.loadFuture /\ ~FutureDone(cell)
           THEN /\ th' = [th EXCEPT !.cells[id] = cell]
                /\ pc' = [Idle EXCEPT !.at = "result373", !.k = id]
           ELSE /\ th' = [th EXCEPT !.cells[id] = ImageLoaded(cell)]
                /\ UNCHANGED pc
    /\ UNCHANGED <<fs, view, menu, mw, dialog, gh, sr>>

\* ImageLoaded, lines 373-383: the load finishes within the second
ImageLoadedResult ==
    /\ pc.at = "result373" /\ FutureDone(th.cells[pc.k])
    /\ th' = Collected([th EXCEPT !.cells[pc.k] =
                           [ImageLoaded(@) EXCEPT !.loadFuture = FALSE]],
                       mw.thumbnailList)
    /\ pc' = Idle
    /\ UNCHANGED <<fs, view, menu, mw, dialog, gh, sr>>

\* ImageLoaded, line 373: the second passes and result() raises
ImageLoadedTimeout ==
    /\ pc.at = "result373" /\ ~FutureDone(th.cells[pc.k])
    /\ pc' = Idle
    /\ UNCHANGED <<fs, view, menu, mw, dialog, gh, sr, th>>

(***************************************************************************)
(* Parts of the state that a specification leaves alone.                   *)
(***************************************************************************)
File(name) == [name |-> name, isDir |-> FALSE]

Folder(name) == [name |-> name, isDir |-> TRUE]

\* A file that Pillow cannot decode
CorruptFile(name) == [name |-> name, isDir |-> FALSE, corrupt |-> TRUE]

\* A folder of one picture and one video
ViewerFs ==
    <<>> :> <<Folder("pics")>> @@
    <<"pics">> :> <<File("c.mp4"), File("a.png")>>

\* The window and the thumbnails once the start-up timer has expired with
\* no file opened, SetLabels has listed currentPath and resetScroll has run
Listed(fsys, currentPath, window) ==
    LET start == [MainWindowInit(currentPath, window) EXCEPT !.startUpTimer = FALSE]
        made == SetLabelsCreate(fsys, start, ThInit)
        m == ResetScrollValue([made.m EXCEPT !.resetPending = 0])
    IN  [m |-> m,
         t |-> SetHighlighted(made.t, m.thumbnailList,
                              m.currentHighlightedThumbnail, TRUE)]

SrOff ==
    [image |-> NoImage, factor |-> 0, called |-> FALSE,
     out |-> [image |-> NoImage, inference |-> FALSE, logged |-> FALSE,
              raised |-> FALSE]]

ViewerOff ==
    /\ view = ViewInit
    /\ menu = MenuInit
    /\ dialog = DialogClosed
    /\ pc = Idle
    /\ gh = GhostInit

(***************************************************************************)
(* SpecSR: ImageTools.SuperResolution called on its own with any image and *)
(* any factor.                                                             *)
(***************************************************************************)
SrImages ==
    {[src |-> "a.png", ops |-> <<>>, w |-> w, h |-> h] :
        w \in 1..MaxSide, h \in 1..MaxSide}

SrInit ==
    /\ sr \in {[SrOff EXCEPT !.image = i, !.factor = f] :
                  i \in SrImages, f \in (0 - MaxFactor)..MaxFactor}
    /\ fs = ViewerFs
    /\ mw = MainWindowInit(<<"pics">>, StartWindow)
    /\ th = ThInit
    /\ ViewerOff

SrCall ==
    /\ ~sr.called
    /\ sr' = [sr EXCEPT !.out = SuperResolutionCall(sr.image, sr.factor),
                        !.called = TRUE]
    /\ UNCHANGED <<fs, view, menu, mw, dialog, pc, gh, th>>

SrNext == SrCall

SpecSR == SrInit /\ [][SrNext]_vars

\* C9: SuperResolution called with a factor outside 2..4 returns the very
\* image it was given and does not raise; the model inference runs exactly
\* for the factors 2, 3 and 4.
C9_OutOfRangeFactor ==
    sr.called =>
        /\ sr.out.inference <=> sr.factor \in 2..4
        /\ sr.factor \notin 2..4 => sr.out.image = sr.image /\ ~sr.out.raised
        /\ sr.factor \in 2..4 => sr.out.image # sr.image

\* SuperResolution has been called with factor 5 and with factor 1
C9_Witness ==
    /\ sr.called /\ sr.factor \in {1, 5}
    /\ sr.out.image = sr.image /\ ~sr.out.inference

(***************************************************************************)
(* SpecListing: the window starts in a folder holding any entries, in any  *)
(* order, and lists it.                                                    *)
(***************************************************************************)
\* The entries a listed folder is made of
EntryPool ==
    {Folder("Sub"), Folder("apps"), Folder(".git"), Folder("alb.png"),
     File("a.png"), File("A.PNG"), File("B.JPG"), File("c.mp4"),
     File("d.mkv"), File("e.txt"), File(".png")}

\* The contents of a folder: up to MaxEntries entries of different names,
\* in the order iterdir() yields them
FolderContents ==
    UNION {{s \in [1..k -> EntryPool] :
               \A i, j \in 1..k : i # j => s[i].name # s[j].name} :
           k \in 0..MaxEntries}

ListingInit ==
    /\ fs \in {(<<"home">> :> s) : s \in FolderContents}
    /\ mw = MainWindowInit(<<"home">>, StartWindow)
    /\ th = ThInit
    /\ ViewerOff
    /\ sr = SrOff

ListingNext ==
    \/ StartUpTimerExpired
    \/ StepCreate
    \/ ResetScroll

SpecListing == ListingInit /\ [][ListingNext]_vars

\* The paths of the thumbnails in the grid, in their order
Listing ==
    [i \in 1..Len(mw.thumbnailList) |-> th.cells[mw.thumbnailList[i]].path]

\* seq is in the order of sorted(key=name.lower())
SortedCaseInsensitively(seq) ==
    \A i, j \in 1..Len(seq) : i < j => ~StrLess(SortKey(seq[j]), SortKey(seq[i]))

\* C6: the listing is the parent directory, then subfolders sorted without
\* regard to case, then media files sorted without regard to case; no file
\* precedes a folder and the parent is at index 0.
C6_ListingOrder ==
    mw.thumbnailList # <<>> =>
        /\ Listing[1] = Parent(mw.currentPath)
        /\ \E k \in 1..Len(Listing) :
              /\ \A i \in 2..k : IsDir(fs, Listing[i])
              /\ SortedCaseInsensitively(SubSeq(Listing, 2, k))
              /\ \A i \in (k + 1)..Len(Listing) : IsFile(fs, Listing[i])
              /\ SortedCaseInsensitively(SubSeq(Listing, k + 1, Len(Listing)))
        /\ \A i, j \in 1..Len(Listing) :
              i < j => ~(IsFile(fs, Listing[i]) /\ IsDir(fs, Listing[j]))

\* The allow-list the specification gives
C7_AllowList ==
    IMAGE_EXTENSIONS \cup {<<46, 109, 112, 52>>, <<46, 109, 107, 118>>}

\* The files of the listed folder whose extension is on the allow-list
C7_MediaFiles ==
    {path \in {IterDir(fs, mw.currentPath)[i] : i \in 1..Len(fs[mw.currentPath])} :
        IsFile(fs, path) /\ Lower(Suffix(path)) \in C7_AllowList}

\* C7: the media part of the listing holds exactly the files, not the
\* directories, of the folder whose extension matches the allow-list .gif,
\* .jpg, .jpeg, .png, .webp, .mp4, .mkv without regard to case.
C7_MediaPart ==
    mw.thumbnailList # <<>> =>
        {mw.imageList[i] : i \in 1..Len(mw.imageList)} = C7_MediaFiles

(***************************************************************************)
(* SpecBrowser: folders within folders, walked through with the mouse and  *)
(* the keyboard while the window is scrolled and resized.                  *)
(***************************************************************************)
BrowserFs ==
    <<>> :> <<Folder("pics"), Folder("home")>>
        @@ <<"home">> :> <<Folder("Sub")>>
        @@ <<"home", "Sub">> :> <<>>
        @@ <<"pics">> :> <<>>

\* The sizes the window takes: one row of thumbnails fits the narrow one
\* and does not fit the wide one
WindowSizes ==
    {[width |-> 8, height |-> 2, margins |-> 0], StartWindow}

BrowserInit ==
    /\ fs = BrowserFs
    /\ mw = MainWindowInit(<<"home">>, StartWindow)
    /\ th = ThInit
    /\ ViewerOff
    /\ sr = SrOff

BrowserNext ==
    \/ StartUpTimerExpired
    \/ \E i \in 1..Len(mw.thumbnailList) : ThumbnailClicked(i)
    \/ \E key \in {"Left", "Right", "Up", "Down"}, newScroll \in 0..mw.scrollMax :
          ArrowKey(key, newScroll)
    \/ ReturnKey
    \/ StepCancelFlag
    \/ StepCancelFuture
    \/ StepCreate
    \/ ResetScroll
    \/ \E value \in 0..mw.scrollMax : UserScrolled(value)
    \/ \E window \in WindowSizes : WindowResized(window)

SpecBrowser == BrowserInit /\ [][BrowserNext]_vars

\* C8 as first stated: the folder resetScroll has last run for has been
\* given the scroll
\* offset s and the highlighted index h it was last left with, 0 and 0 if
\* it was never left
C8_FolderPositionRestored ==
    gh.reset.done =>
        /\ gh.reset.scroll = gh.reset.left.s
        /\ gh.reset.h = gh.reset.left.h

\* C8: for every folder F last left, by opening another folder from it,
\* with scroll offset s and highlighted index h: the next time F is listed,
\* once the deferred resetScroll has run, the highlighted index is h and the
\* scroll offset is s bounded to the range the scroll bar has by then,
\* however many folders were visited in between; a folder never left this
\* way opens at offset 0 with index 0.
C8_FolderPositionWithinRange ==
    gh.reset.done =>
        /\ gh.reset.scroll = Min(gh.reset.left.s, gh.reset.max)
        /\ gh.reset.h = gh.reset.left.h

C8_Witness ==
    /\ gh.reset.done /\ gh.reset.known
    /\ gh.reset.left.s = 1 /\ gh.reset.scroll = 1
    /\ gh.reset.left.h = 1 /\ gh.reset.h = 1
    /\ mw.currentPath = <<"home">>
    /\ {<<>>, <<"pics">>} \subseteq DOMAIN gh.left

(***************************************************************************)
(* SpecLoader: a folder of pictures is listed and left again while the     *)
(* threads of the executor load its thumbnails.                            *)
(***************************************************************************)
LoaderInit ==
    /\ fs = ViewerFs
    /\ mw = MainWindowInit(<<"pics">>, StartWindow)
    /\ th = ThInit
    /\ ViewerOff
    /\ sr = SrOff

LoaderNext ==
    \/ StartUpTimerExpired
    \/ \E i \in 1..Len(mw.thumbnailList) :
          /\ IsDir(fs, th.cells[mw.thumbnailList[i]].path)
          /\ ThumbnailClicked(i)
    \/ StepCancelFlag
    \/ StepCancelFuture
    \/ StepCreate
    \/ ResetScroll
    \/ \E w \in 1..MaxWorkers : WorkerTake(w)
    \/ \E w \in 1..MaxWorkers : WorkerStatement(w)
    \/ \E w \in 1..MaxWorkers : WorkerReturn(w)
    \/ \E w \in 1..MaxWorkers : WaitTest(w)
    \/ \E w \in 1..MaxWorkers : WaitResult(w)
    \/ \E w \in 1..MaxWorkers : WaitTimeout(w)
    \/ \E id \in DOMAIN th.cells : ImageLoadedSlot(id)
    \/ ImageLoadedResult
    \/ ImageLoadedTimeout

SpecLoader == LoaderInit /\ [][LoaderNext]_vars

\* What a thumbnail shows
C3_Visible(cell) ==
    <<cell.pixmap, cell.text, cell.minSize, cell.currentImage, cell.opacity>>

\* C3: once CancelLoad has returned for a thumbnail, no step changes its
\* pixmap, its text, its minimum size, its current image or its opacity,
\* whatever the threads do and also when the load was running when it was
\* cancelled.
C3_NoChangeAfterCancel ==
    [][\A id \in DOMAIN th.cells \cap DOMAIN th'.cells :
          (th.cells[id].cancelReturned /\ th'.cells[id].cancelReturned) =>
              C3_Visible(th'.cells[id]) = C3_Visible(th.cells[id])]_vars

\* C4: a thumbnail whose CancelLoad was called before its load had started
\* keeps showing its placeholder: the load is dropped or runs its two tests
\* of _loadCancelled and returns, no picture is decoded or displayed, the
\* loaded signal is not emitted and the opacity stays that of the
\* placeholder.
C4_CancelledBeforeStart ==
    /\ \A id \in DOMAIN th.cells :
          th.cells[id].cancelledPending =>
              /\ th.cells[id].pixmap = "default"
              /\ th.cells[id].opacity = 20
              /\ th.cells[id].currentImage = "none"
              /\ ~th.cells[id].qtImage
              /\ th.cells[id].queued = 0
    /\ \A w \in 1..MaxWorkers :
          (th.workers[w].kind = "load" /\ th.cells[th.workers[w].cell].cancelledPending)
              => th.workers[w].at \in {"test300", "test320", "return"}

C4_Witness ==
    \E id \in DOMAIN th.cells :
        /\ th.cells[id].cancelledPending /\ th.cells[id].cancelReturned
        /\ th.cells[id].loadCancelled
        /\ th.cells[id].state = "finished"
        /\ th.cells[id].pixmap = "default" /\ th.cells[id].opacity = 20

(***************************************************************************)
(* SpecViewer: one folder of media files, opened in the viewer, edited,    *)
(* undone, adjusted, zoomed and selected in.                               *)
(***************************************************************************)
ViewerInit ==
    /\ fs = ViewerFs
    /\ mw = Listed(ViewerFs, <<"pics">>, StartWindow).m
    /\ th = Listed(ViewerFs, <<"pics">>, StartWindow).t
    /\ ViewerOff
    /\ sr = SrOff

\* The text of datetime.now().strftime('%y-%m-%d %H.%M.%S') at the one
\* second of 26-11-03 21.06.01 in which SpecViewer saves
ViewerClock ==
    <<50, 54, 45, 49, 49, 45, 48, 51, 32, 50, 49, 46, 48, 54, 46, 48, 49>>

\* The viewer's events, over the decorated methods called from the menus,
\* the values a slider is moved to, the cursor positions at which the Meta
\* key goes down and those the pointer moves to
ViewerEvents(ops, sliders, sliderValues, pressPoints, movePoints) ==
    \/ \E i \in 2..Len(mw.thumbnailList) : ThumbnailClicked(i)
    \/ NextImage
    \/ PrevImage
    \/ ReturnToBrowser
    \/ \E op \in ops : InvokePush(op)
    \/ \E op \in ops : InvokeNoImage(op)
    \/ StepCallFunc
    \/ StepUpdatePixmap
    \/ StepSetCanBeSaved
    \/ StepEmitModified
    \/ Undo
    \/ \E now \in {ViewerClock} : Save(now)
    \/ OpenAdjustDialog
    \/ \E slider \in sliders :
           \E value \in sliderValues : SliderMoved(slider, value)
    \/ AcceptPush
    \/ AcceptNoImage
    \/ Reject
    \/ ZoomToRect
    \/ ResetZoomCommand
    \/ \E p \in pressPoints : KeyPress(p)
    \/ KeyRelease
    \/ \E leftButton \in BOOLEAN : \E metaModifier \in BOOLEAN :
           MousePressed(leftButton, metaModifier)
    \/ \E p \in movePoints : MouseMoved(p)
    \/ \E deltaY \in {1} : Wheel(deltaY)

\* The decorated methods SpecViewer calls from the menus
ViewerOps ==
    {[name |-> "Sharpen", arg |-> 0], [name |-> "CropImage", arg |-> 0]}

\* The values SpecViewer moves a slider to (the range is 0..20)
SliderValues == {15}

ViewerNext ==
    ViewerEvents(ViewerOps, {"colour"}, SliderValues, {<<0, 0>>}, {<<2, 2>>})

SpecViewer == ViewerInit /\ [][ViewerNext]_vars

\* C1: after N mutating commands on an opened image followed by N Undo
\* commands, the current image and the displayed image are the image that
\* was loaded.
C1_UndoRoundTrip ==
    (gh.ok /\ gh.n >= 1 /\ gh.u = gh.n /\ pc.at = "idle") =>
        /\ view.pilImage = gh.orig
        /\ view.pixmapItem = gh.orig

\* Two mutating commands have been undone by two Undo commands
C1_Witness ==
    /\ gh.ok /\ gh.n = 2 /\ gh.u = 2 /\ pc.at = "idle"
    /\ view.pilImage = gh.orig /\ gh.orig # NoImage

InMenuOperation ==
    /\ pc.at \in {"appended", "called", "shown", "flagged"}
    /\ pc.op.name # "UpdateImage"

\* The image the method of pc.op computes from the image before the call
ComputedImage ==
    Manipulate([view EXCEPT !.pilImage = gh.pre.image,
                            !.rectItem = gh.pre.rect], pc.op)

\* One snapshot, the image before the call, is on top of the undo buffer
PushedOne ==
    /\ Len(view.undoBuffer) = gh.pre.len + 1
    /\ Last(view.undoBuffer) = gh.pre.image

\* C10: a mutating command invoked with an image current first pushes one
\* snapshot, the image as it was before the command, while the image is
\* not yet computed; then computes the new image; then displays it; then
\* sets the modified flag.  A snapshot in the buffer is never altered.
C10_PushComputeShowMark ==
    /\ [](InMenuOperation =>
            /\ PushedOne
            /\ pc.at = "appended" =>
                   /\ view.pilImage = gh.pre.image
                   /\ view.pixmapItem = gh.pre.shown
                   /\ view.imageCanBeSaved = gh.pre.saved
            /\ pc.at = "called" =>
                   /\ view.pilImage = ComputedImage
                   /\ view.pixmapItem = gh.pre.shown
                   /\ view.imageCanBeSaved = gh.pre.saved
            /\ pc.at = "shown" =>
                   /\ view.pilImage = ComputedImage
                   /\ view.pixmapItem = view.pilImage
                   /\ view.imageCanBeSaved = gh.pre.saved
            /\ pc.at = "flagged" =>
                   /\ view.pilImage = ComputedImage
                   /\ view.pixmapItem = view.pilImage
                   /\ view.imageCanBeSaved)
    /\ [][\A i \in 1..Min(Len(view.undoBuffer), Len(view.undoBuffer')) :
              view.undoBuffer'[i] = view.undoBuffer[i]]_vars

\* The first command on an image has displayed its result and the flag is
\* not yet set
C10_Witness ==
    /\ InMenuOperation /\ pc.at = "shown"
    /\ gh.pre.len = 0 /\ Len(view.undoBuffer) = 1
    /\ view.pixmapItem # gh.pre.shown /\ ~view.imageCanBeSaved

(***************************************************************************)
(* SpecSelect: a picture and a video are opened in the viewer and          *)
(* rectangles are dragged over them from and to any point; the picture is  *)
(* zoomed into from the whole view and cropped once.                       *)
(***************************************************************************)
\* Left of or above every picture, within every picture, right of or below
\* every picture
SelectCoordinates == {0 - 1, 1, MaxPoint}

SelectPoints == {<<x, y>> : x \in SelectCoordinates, y \in SelectCoordinates}

SelectNext ==
    \/ \E i \in 2..Len(mw.thumbnailList) : ThumbnailClicked(i)
    \/ ReturnToBrowser
    \/ \E p \in SelectPoints : KeyPress(p)
    \/ KeyRelease
    \/ \E leftButton \in BOOLEAN : \E metaModifier \in BOOLEAN :
           MousePressed(leftButton, metaModifier)
    \/ \E p \in SelectPoints : MouseMoved(p)
    \/ (view.pixmapItem # NoImage /\ view.origin = <<0, 0>> /\ ZoomToRect)
    \/ ResetZoomCommand
    \/ (view.undoBuffer = <<>> /\ InvokePush([name |-> "CropImage", arg |-> 0]))
    \/ StepCallFunc
    \/ StepUpdatePixmap
    \/ StepSetCanBeSaved
    \/ StepEmitModified

SpecSelect == ViewerInit /\ [][SelectNext]_vars

\* The bounds of the media on display: of the picture, or of the frames of
\* the video
C5_MediaBounds ==
    IF view.pixmapItem # NoImage THEN BoundingRect(view.pixmapItem)
    ELSE <<0, 0, WidthOf(Last(view.imagePath)), HeightOf(Last(view.imagePath))>>

\* C5 as first stated: the selection rectangle lies within the bounds of
\* the displayed media, picture or video, after every pointer move of a drag from any origin to
\* any point
C5_RectWithinMedia ==
    view.rectItem # None => RectWithin(view.rectItem, C5_MediaBounds)

\* C5: in every viewer session that displays a picture, after every pointer
\* move of a drag from any origin to any point, also points outside the
\* picture, the selection rectangle lies within the bounds of the displayed
\* picture; over a video the rectangle is not bounded.
C5_RectWithinPicture ==
    (view.rectItem # None /\ view.pixmapItem # NoImage) =>
        RectWithin(view.rectItem, BoundingRect(view.pixmapItem))

C5_Witness ==
    /\ view.pixmapItem # NoImage /\ view.ctrlHeld
    /\ view.startDragPoint = <<0 - 1, 0 - 1>>
    /\ view.origin = <<0, 0>>
    /\ view.rectItem = BoundingRect(view.pixmapItem)
    /\ view.pixmapItem.w > 0

(***************************************************************************)
(* SpecUndo: FullImage.UndoLastChange called on a view holding any current *)
(* image, any undo buffer of up to MaxUndo snapshots and either value of   *)
(* the modified flag, the states without a snapshot included, in which the *)
(* menu keeps the command disabled.                                        *)
(***************************************************************************)
UndoPicture == ImageOpen(<<"pics", "a.png">>)

UndoImages ==
    {UndoPicture, ManipulateImage(UndoPicture, "Sharpen"),
     ManipulateImage(UndoPicture, "Blur")}

UndoBuffers ==
    UNION {[1..n -> UndoImages] : n \in 0..MaxUndo}

UndoInit ==
    /\ fs = ViewerFs
    /\ mw = Listed(ViewerFs, <<"pics">>, StartWindow).m
    /\ th = Listed(ViewerFs, <<"pics">>, StartWindow).t
    /\ \E image \in UndoImages : \E buffer \in UndoBuffers :
           \E modified \in BOOLEAN :
               /\ view = [ViewInit EXCEPT !.imagePath = <<"pics", "a.png">>,
                                          !.pilImage = image,
                                          !.pixmapItem = image,
                                          !.undoBuffer = buffer,
                                          !.imageCanBeSaved = modified]
               /\ menu = [MenuInit EXCEPT !.undo = modified, !.save = modified]
    /\ dialog = DialogClosed
    /\ pc = Idle
    /\ gh = GhostInit
    /\ sr = SrOff

\* One call of FullImage.UndoLastChange
UndoCalled ==
    /\ pc.at = "idle"
    /\ Becomes(UndoLastChange(World))
    /\ gh' = [gh EXCEPT !.u = 1,
                        !.pre = [image |-> view.pilImage,
                                 len |-> Len(view.undoBuffer),
                                 saved |-> view.imageCanBeSaved,
                                 shown |-> view.pixmapItem,
                                 rect |-> view.rectItem]]
    /\ UNCHANGED <<fs, mw, dialog, pc, sr, th>>

UndoNext == UndoCalled

SpecUndo == UndoInit /\ [][UndoNext]_vars

\* C11: an undo with snapshots makes the last pushed snapshot the current
\* and the displayed image and removes that snapshot only; an undo clears
\* the modified flag when it leaves no snapshot and leaves the flag alone
\* otherwise; an undo without snapshots changes neither image nor buffer.
C11_UndoLifo ==
    [][/\ view.undoBuffer # <<>> =>
              /\ view'.pilImage = Last(view.undoBuffer)
              /\ view'.pixmapItem = Last(view.undoBuffer)
              /\ view'.undoBuffer = Front(view.undoBuffer)
       /\ view.undoBuffer = <<>> =>
              /\ view'.pilImage = view.pilImage
              /\ view'.pixmapItem = view.pixmapItem
              /\ view'.undoBuffer = <<>>
       /\ view'.undoBuffer = <<>> => ~view'.imageCanBeSaved
       /\ view'.undoBuffer # <<>> =>
              view'.imageCanBeSaved = view.imageCanBeSaved]_vars

\* An undo of two snapshots has restored the later one and kept the flag
C11_Witness ==
    /\ gh.u = 1 /\ gh.pre.len = 2 /\ gh.pre.saved
    /\ Len(view.undoBuffer) = 1
    /\ view.pilImage # gh.pre.image
    /\ view.pilImage # view.undoBuffer[1]
    /\ view.imageCanBeSaved

(***************************************************************************)
(* SpecAdjust: a folder of two pictures; each is opened in the viewer and  *)
(* the adjust dialog is opened on it, its sliders moved, and accepted or   *)
(* rejected, any number of times; accepted changes are undone.             *)
(***************************************************************************)
AdjustFs ==
    <<>> :> <<Folder("pics")>> @@
    <<"pics">> :> <<File("a.png"), File("h.gif")>>

AdjustInit ==
    /\ fs = AdjustFs
    /\ mw = Listed(AdjustFs, <<"pics">>, StartWindow).m
    /\ th = Listed(AdjustFs, <<"pics">>, StartWindow).t
    /\ ViewerOff
    /\ sr = SrOff

Sliders == {"colour", "contrast", "brightness"}

AdjustValues == {15}

AdjustNext ==
    \/ \E i \in 2..Len(mw.thumbnailList) : ThumbnailClicked(i)
    \/ NextImage
    \/ ReturnToBrowser
    \/ OpenAdjustDialog
    \/ \E slider \in Sliders : \E value \in AdjustValues :
           SliderMoved(slider, value)
    \/ AcceptPush
    \/ AcceptNoImage
    \/ Reject
    \/ StepCallFunc
    \/ StepUpdatePixmap
    \/ StepSetCanBeSaved
    \/ StepEmitModified
    \/ Undo

SpecAdjust == AdjustInit /\ [][AdjustNext]_vars

\* The image the three adjustments make of image at the dialog's values
Adjusted(image, d) ==
    Brightness(Contrast(Colour(image, d.colour), d.contrast), d.brightness)

\* C12: a slider change in the adjust dialog leaves the undo buffer, the
\* image and the modified flag as they are, and the preview it shows is the
\* image adjusted by the three slider values, whatever was previewed before.
C12_PreviewFromCommitted ==
    [][(dialog.open /\ dialog'.open /\ dialog' # dialog) =>
           /\ view'.undoBuffer = view.undoBuffer
           /\ view'.pilImage = view.pilImage
           /\ view'.imageCanBeSaved = view.imageCanBeSaved
           /\ view.pilImage # NoImage =>
                  /\ view'.adjustedImage = Adjusted(view.pilImage, dialog')
                  /\ view'.pixmapItem = view'.adjustedImage]_vars

\* A second slider has been moved in one session of the dialog
C12_Witness ==
    /\ dialog.open /\ dialog.colour = 15 /\ dialog.contrast = 15
    /\ view.pilImage # NoImage
    /\ view.pilImage = gh.session.image
    /\ view.pixmapItem = Adjusted(view.pilImage, dialog)

\* UpdateImage has run for the accepted dialog and the decorator has not
\* returned yet
AcceptCommitted ==
    /\ pc.op.name = "UpdateImage"
    /\ pc.at \in {"called", "shown", "flagged"}

\* C13: once the accepted dialog has committed, the image is the image of
\* the time the dialog opened, adjusted by the dialog's final slider values,
\* and that earlier image is the last snapshot of the undo buffer.
C13_AcceptCommitsAdjustment ==
    AcceptCommitted =>
        /\ view.pilImage = Adjusted(gh.session.image, dialog)
        /\ view.undoBuffer = Append(gh.session.buffer, gh.session.image)

\* C14: rejecting the adjust dialog leaves the image, the undo buffer and
\* the modified flag as they were when the dialog opened, and the picture
\* on display is the image again.
C14_RejectRestores ==
    [][Reject =>
           /\ view'.pilImage = gh.session.image
           /\ view'.undoBuffer = gh.session.buffer
           /\ view'.imageCanBeSaved = gh.session.saved
           /\ view'.pixmapItem = view'.pilImage]_vars

\* The same with an image present when the dialog opened
C14_RejectRestoresImage ==
    [][(Reject /\ gh.session.image # NoImage) =>
           /\ view'.pilImage = gh.session.image
           /\ view'.undoBuffer = gh.session.buffer
           /\ view'.imageCanBeSaved = gh.session.saved
           /\ view'.pixmapItem = view'.pilImage]_vars

\* The thumbnails of the list
ListedCells == {mw.thumbnailList[i] : i \in 1..Len(mw.thumbnailList)}

\* C15: when SetLabels starts to create thumbnails, CancelLoad has been
\* called on, and has returned for, every thumbnail of the list it replaces;
\* and a thumbnail that is alive outside the list has had its load
\* cancelled.
C15_CancelledBeforeReplaced ==
    /\ pc.at = "create" =>
           \A id \in ListedCells :
               th.cells[id].loadCancelled /\ th.cells[id].cancelReturned
    /\ \A id \in DOMAIN th.cells \ ListedCells :
           th.cells[id].loadCancelled /\ th.cells[id].cancelReturned

\* A thumbnail whose load a pool thread is running has left the list
C15_Witness ==
    /\ pc.at = "idle"
    /\ \E id \in DOMAIN th.cells \ ListedCells :
           /\ th.cells[id].state = "running"
           /\ th.cells[id].loadCancelled
    /\ \E id \in ListedCells : ~th.cells[id].loadCancelled

\* The load tasks of thumbnail id that are queued or running
LoadTasksOf(id) ==
    Cardinality({i \in 1..Len(th.queue) :
                    th.queue[i] = [kind |-> "load", cell |-> id]})
      + Cardinality({w \in DOMAIN th.workers :
                        /\ th.workers[w].kind = "load"
                        /\ th.workers[w].cell = id})

\* At most one load task of each thumbnail is queued or running, and none
\* when its future is finished, cancelled or was never made
OneLoadTask ==
    \A id \in DOMAIN th.cells :
        /\ LoadTasksOf(id) <= 1
        /\ th.cells[id].state \in {"none", "finished"} => LoadTasksOf(id) = 0
        /\ th.cells[id].state = "running" => LoadTasksOf(id) = 1

\* C16: a thumbnail has at most one load task queued or running and never
\* gets a new one once it exists; its _loadCancelled, once set, stays set;
\* and a statement of a load task that has found _loadCancelled set in one
\* of its tests changes no thumbnail.
C16_OneLoadFlagKept ==
    /\ []OneLoadTask
    /\ [][/\ pc.at # "create" =>
                \A id \in DOMAIN th.cells \cap DOMAIN th'.cells :
                    /\ th.cells[id].loadCancelled => th'.cells[id].loadCancelled
                    /\ th'.cells[id].state = "pending" =>
                           th.cells[id].state = "pending"
          /\ \A w \in DOMAIN th.workers :
                (WorkerStatement(w) /\ th.workers[w].saw) =>
                    th'.cells = th.cells]_vars

\* A load task that has decoded its file has then found _loadCancelled set
\* and has come to its end with the placeholder in place
C16_Witness ==
    \E w \in DOMAIN th.workers :
        /\ th.workers[w].kind = "load" /\ th.workers[w].saw
        /\ th.workers[w].at = "return"
        /\ th.cells[th.workers[w].cell].qtImage
        /\ th.cells[th.workers[w].cell].pixmap = "default"

(***************************************************************************)
(* SpecDecode: a folder of one picture and one file that cannot be         *)
(* decoded is listed and left again, the threads of the executor load the  *)
(* thumbnails, and the window is resized once no load is in flight.        *)
(***************************************************************************)
DecodeFs ==
    <<>> :> <<Folder("pics")>> @@
    <<"pics">> :> <<CorruptFile("g.jpeg"), File("a.png")>>

DecodeInit ==
    /\ fs = DecodeFs
    /\ mw = MainWindowInit(<<"pics">>, StartWindow)
    /\ th = ThInit
    /\ ViewerOff
    /\ sr = SrOff

DecodeNext ==
    \/ LoaderNext
    \/ \E window \in WindowSizes : WindowResized(window)

SpecDecode == DecodeInit /\ [][DecodeNext]_vars

\* C17: a thumbnail whose load has raised shows the placeholder at its
\* reduced opacity, whatever has happened since.
C17_FailedKeepsPlaceholder ==
    \A id \in DOMAIN th.cells :
        th.cells[id].exception =>
            /\ th.cells[id].pixmap = "default"
            /\ th.cells[id].currentImage = "none"
            /\ th.cells[id].opacity = 20

(***************************************************************************)
(* SpecStartup: the window is constructed in a home folder that holds a    *)
(* Pictures folder or none; the start-up timer expires and the operating   *)
(* system hands over a file to open, in either order; folders and files    *)
(* are opened from the browser.  The threads of the executor are held up.  *)
(***************************************************************************)
StartupFolders ==
    {<<>> :> <<Folder("home")>> @@
     Home :> <<Folder("Pictures"), File("a.png")>> @@
     <<"home", "Pictures">> :> <<File("h.gif"), File("c.mp4")>>,
     <<>> :> <<Folder("home")>> @@
     Home :> <<Folder("pics"), File("a.png")>> @@
     <<"home", "pics">> :> <<File("h.gif"), File("c.mp4")>>}

\* The files the operating system may hand over
StartupFiles ==
    UNION {{Append(dir, fs[dir][i].name) :
               i \in {j \in 1..Len(fs[dir]) : ~fs[dir][j].isDir}} :
           dir \in DOMAIN fs}

StartupInit ==
    /\ fs \in StartupFolders
    /\ mw = MainWindowInit(DefaultPath(fs), StartWindow)
    /\ th = ThInit
    /\ ViewerOff
    /\ sr = SrOff

StartupNext ==
    \/ StartUpTimerExpired
    \/ \E imagePath \in StartupFiles : FileOpened(imagePath)
    \/ StepCancelFlag
    \/ StepCancelFuture
    \/ StepCreate
    \/ ResetScroll
    \/ \E i \in 1..Len(mw.thumbnailList) : ThumbnailClicked(i)
    \/ NextImage
    \/ ReturnToBrowser

SpecStartup == StartupInit /\ [][StartupNext]_vars

\* The paths of the thumbnails of the list
ListedPaths(m, t) == [i \in 1..Len(m.thumbnailList) |-> t.cells[m.thumbnailList[i]].path]

\* C18: SetLabels run for a file the operating system handed over lists the
\* folder of the file and leaves the file maximised, and when the start-up
\* timer expires after it nothing is listed; when the timer expires with no
\* file handed over, SetLabels lists the default folder, Pictures in the
\* home folder if that exists and the home folder otherwise, and the window
\* stays in the browser.
C18_StartupListing ==
    [][/\ (StepCreate /\ pc.op.name = "FileOpened") =>
              /\ mw'.currentPath = Parent(pc.path)
              /\ ListedPaths(mw', th') = FileList(fs, Parent(pc.path))
              /\ mw'.imageMaximised /\ view'.imagePath = pc.path
       /\ (StartUpTimerExpired /\ mw.fileOpenReceived) =>
              /\ pc' = pc /\ th' = th
              /\ mw' = [mw EXCEPT !.startUpTimer = FALSE]
       /\ (StartUpTimerExpired /\ ~mw.fileOpenReceived) =>
              /\ pc'.at \in {"cancelFlag", "create"}
              /\ pc'.op.name = "StartUpTimerExpired"
       /\ (StepCreate /\ pc.op.name = "StartUpTimerExpired") =>
              /\ mw'.currentPath = DefaultPath(fs)
              /\ DefaultPath(fs) =
                     IF IsDir(fs, <<"home", "Pictures">>)
                     THEN <<"home", "Pictures">> ELSE <<"home">>
              /\ ListedPaths(mw', th') = FileList(fs, DefaultPath(fs))
              /\ ~mw'.imageMaximised]_vars

\* A file in a folder other than the default one has been handed over and
\* is maximised, and the timer has expired since
C18_Witness ==
    /\ mw.fileOpenReceived /\ ~mw.startUpTimer /\ pc.at = "idle"
    /\ mw.imageMaximised
    /\ view.imagePath = <<"home", "a.png">>
    /\ mw.currentPath = Home /\ DefaultPath(fs) # Home
    /\ ListedPaths(mw, th) = FileList(fs, Home)
    /\ gh.stale = 0 /\ ~StaleThumbnails

\* C19: the UI thread never stands in a wait for a load that a pool thread
\* is still running.
C19_UiNeverWaits ==
    ~(/\ pc.at = "result373"
      /\ pc.k \in DOMAIN th.cells
      /\ th.cells[pc.k].state = "running")

(***************************************************************************)
(* SpecShare: a folder of a picture and a video is listed and left again   *)
(* once no thumbnail of an earlier list is alive, the threads of the       *)
(* executor load the thumbnails, and the window is resized.                *)
(***************************************************************************)
ShareNext ==
    \/ StartUpTimerExpired
    \/ \E i \in 1..Len(mw.thumbnailList) :
          /\ ~StaleThumbnails
          /\ IsDir(fs, th.cells[mw.thumbnailList[i]].path)
          /\ ThumbnailClicked(i)
    \/ StepCancelFlag
    \/ StepCancelFuture
    \/ StepCreate
    \/ ResetScroll
    \/ \E w \in 1..MaxWorkers : WorkerTake(w)
    \/ \E w \in 1..MaxWorkers : WorkerStatement(w)
    \/ \E w \in 1..MaxWorkers : WorkerReturn(w)
    \/ \E w \in 1..MaxWorkers : WaitTest(w)
    \/ \E w \in 1..MaxWorkers : WaitResult(w)
    \/ \E w \in 1..MaxWorkers : WaitTimeout(w)
    \/ \E id \in DOMAIN th.cells : ImageLoadedSlot(id)
    \/ ImageLoadedResult
    \/ ImageLoadedTimeout
    \/ \E window \in WindowSizes : WindowResized(window)

SpecShare == LoaderInit /\ [][ShareNext]_vars

\* A step of the pool thread w
WorkerStep(w) ==
    \/ WorkerTake(w) \/ WorkerStatement(w) \/ WorkerReturn(w)
    \/ WaitTest(w) \/ WaitResult(w) \/ WaitTimeout(w)

\* The thumbnail whose task the pool thread w runs or is about to take
OwnCell(w) ==
    IF th.workers[w].kind = "none" THEN Head(th.queue).cell
    ELSE th.workers[w].cell

\* A step of a pool thread leaves the viewer with its undo buffer and the
\* window with its folder information alone, and changes no thumbnail but
\* the one of its task
WorkerKeepsOut(w) ==
    /\ view' = view /\ mw' = mw /\ menu' = menu /\ dialog' = dialog /\ pc' = pc
    /\ th'.thumbnailSize = th.thumbnailSize
    /\ th'.initialised = th.initialised
    /\ DOMAIN th'.cells \subseteq DOMAIN th.cells
    /\ \A id \in DOMAIN th'.cells \ {OwnCell(w)} : th'.cells[id] = th.cells[id]

UndoDecorated(w, op) ==
    IF w.v.pilImage # NoImage
    THEN UndoEmitModified(UndoSetCanBeSaved(UndoUpdatePixmap(
             UndoCallFunc(UndoAppend(w), op))))
    ELSE w

GuardRects == {None, RectOf(<<1, 1>>, <<2, 2>>)}

GuardOps ==
    {[name |-> n, arg |-> 0] :
        n \in FilterNames \cup {"AutoContrast", "BlackAndWhite", "Denoise",
                                "CropImage", "UpdateImage"}}
    \cup {[name |-> "Colour", arg |-> 11], [name |-> "Contrast", arg |-> 9]}

GuardInit ==
    /\ fs = ViewerFs
    /\ mw = [Listed(ViewerFs, <<"pics">>, StartWindow).m
                EXCEPT !.imageMaximised = TRUE]
    /\ th = Listed(ViewerFs, <<"pics">>, StartWindow).t
    /\ \E rect \in GuardRects :
           \/ \E image \in UndoImages : \E buffer \in UndoBuffers :
                  /\ view = [ViewInit EXCEPT !.imagePath = <<"pics", "a.png">>,
                                             !.pilImage = image,
                                             !.pixmapItem = image,
                                             !.undoBuffer = buffer,
                                             !.imageCanBeSaved = (buffer # <<>>),
                                             !.rectItem = rect,
                                             !.sceneRects =
                                                 IF rect # None THEN 1 ELSE 0]
                  /\ menu = [MenuInit EXCEPT !.menus = TRUE,
                                             !.resetZoom = FALSE,
                                             !.zoomToRect = (rect # None),
                                             !.cropToRect = (rect # None),
                                             !.undo = (buffer # <<>>),
                                             !.save = (buffer # <<>>),
                                             !.videoActions = FALSE]
           \/ /\ view = [ViewInit EXCEPT !.imagePath = <<"pics", "c.mp4">>,
                                         !.videoItem = TRUE,
                                         !.rectItem = rect,
                                         !.sceneRects =
                                             IF rect # None THEN 1 ELSE 0]
              /\ menu = [MenuInit EXCEPT !.menus = TRUE,
                                         !.resetZoom = FALSE,
                                         !.zoomToRect = (rect # None),
                                         !.cropToRect = FALSE,
                                         !.undo = FALSE, !.save = FALSE,
                                         !.imageActions = FALSE]
    /\ dialog = DialogClosed
    /\ pc = Idle
    /\ gh = GhostInit
    /\ sr = SrOff

\* One call of a decorated method
GuardCall(op) ==
    /\ pc.at = "idle"
    /\ view.pilImage # NoImage =>
           Len(view.undoBuffer) < MaxUndo /\ Len(view.pilImage.ops) < MaxHistory
    /\ Becomes(UndoDecorated(World, op))
    /\ pc' = [pc EXCEPT !.op = op]
    /\ UNCHANGED <<fs, mw, dialog, gh, sr, th>>

\* One call of FullImage.SliderChanged
GuardSlider(colour, contrast, brightness) ==
    /\ pc.at = "idle"
    /\ view.pilImage # NoImage => Len(view.pilImage.ops) < MaxHistory
    /\ Becomes(SliderChanged(World, colour, contrast, brightness))
    /\ pc' = [pc EXCEPT !.op = [name |-> "SliderChanged", arg |-> colour]]
    /\ UNCHANGED <<fs, mw, dialog, gh, sr, th>>

GuardNext ==
    \/ \E op \in GuardOps : GuardCall(op)
    \/ \E colour \in AdjustValues : GuardSlider(colour, 10, 10)

SpecGuard == GuardInit /\ [][GuardNext]_vars

\* The current image, the undo buffer and the modified flag are the same
\* before and after the step
GuardUntouched ==
    /\ view'.pilImage = view.pilImage
    /\ view'.undoBuffer = view.undoBuffer
    /\ view'.imageCanBeSaved = view.imageCanBeSaved
    /\ menu'.save = menu.save /\ menu'.undo = menu.undo

\* C21: a call of a filter, crop or adjust method with no current image, and
\* a call of CropImage with no selection rectangle, leaves the current
\* image, the undo buffer and the modified flag as they were.
C21_MissingPreconditionNoOp ==
    [][/\ view.pilImage = NoImage => GuardUntouched
       /\ (pc'.op.name = "CropImage" /\ view.rectItem = None) =>
              GuardUntouched]_vars

(***************************************************************************)
(* SpecSave: FullImage.SaveImage called, at any of a few seconds of the    *)
(* clock, on a view that shows one of the pictures of a folder, with any   *)
(* undo buffer, modified exactly when the buffer holds a snapshot.         *)
(***************************************************************************)
SaveFs ==
    <<>> :> <<Folder("pics")>> @@
    <<"pics">> :> <<File("a.png"), File("f.webp"), File("g.jpeg")>>

\* datetime.now().strftime('%y-%m-%d %H.%M.%S') at 26-11-03 21.06.01, one
\* second later and ten seconds later
SaveClock ==
    {ViewerClock, [ViewerClock EXCEPT ![17] = 50], [ViewerClock EXCEPT ![16] = 49]}

SaveInit ==
    /\ fs = SaveFs
    /\ mw = [Listed(SaveFs, <<"pics">>, StartWindow).m
                EXCEPT !.imageMaximised = TRUE]
    /\ th = Listed(SaveFs, <<"pics">>, StartWindow).t
    /\ \E path \in {<<"pics", SaveFs[<<"pics">>][i].name>> : i \in 1..3} :
           \E image \in {ImageOpen(path), ManipulateImage(ImageOpen(path), "Blur")} :
               \E buffer \in UNION {[1..n -> {ImageOpen(path),
                                                ManipulateImage(ImageOpen(path), "Blur")}] :
                                         n \in 0..MaxUndo} :
                   /\ view = [ViewInit EXCEPT !.imagePath = path,
                                              !.pilImage = image,
                                              !.pixmapItem = image,
                                              !.undoBuffer = buffer,
                                              !.imageCanBeSaved = (buffer # <<>>)]
                   /\ menu = [MenuInit EXCEPT !.menus = TRUE,
                                              !.resetZoom = FALSE,
                                              !.zoomToRect = FALSE,
                                              !.cropToRect = FALSE,
                                              !.undo = (buffer # <<>>),
                                              !.save = (buffer # <<>>),
                                              !.videoActions = FALSE]
    /\ dialog = DialogClosed
    /\ pc = Idle
    /\ gh = GhostInit
    /\ sr = SrOff

\* One call of FullImage.SaveImage
SaveCalled(now) ==
    /\ pc.at = "idle"
    /\ Becomes(SaveImage(World, now))
    /\ UNCHANGED <<fs, mw, dialog, pc, gh, sr, th>>

SaveNext == \E now \in SaveClock : SaveCalled(now)

SpecSave == SaveInit /\ [][SaveNext]_vars

\* C22: SaveImage writes no file when the document is not modified; when it
\* is, the file written lies in the directory of the source file, its name
\* is the source's name without its suffix followed by ' - Modified ', the
\* time of the save and '.png', and it is not the source file; a save leaves
\* the current image, the undo buffer and the modified flag as they were.
C22_SaveNaming ==
    [][\A now \in SaveClock :
           SaveCalled(now) =>
               /\ view'.pilImage = view.pilImage
               /\ view'.undoBuffer = view.undoBuffer
               /\ view'.imageCanBeSaved = view.imageCanBeSaved
               /\ menu' = menu
               /\ ~view.imageCanBeSaved => view'.written = view.written
               /\ view.imageCanBeSaved =>
                      /\ view'.written[1] = Parent(view.imagePath)
                      /\ \E n \in 0..Len(NameOf(view.imagePath)) :
                             /\ SubSeq(NameOf(view.imagePath), 1, n)
                                    \o Suffix(view.imagePath)
                                = NameOf(view.imagePath)
                             /\ view'.written[2] =
                                    SubSeq(NameOf(view.imagePath), 1, n)
                                        \o ModifiedMark \o now \o PngSuffix
                      /\ view'.written #
                             <<Parent(view.imagePath), NameOf(view.imagePath)>>]_vars

\* The modified picture f.webp has been saved as a png file beside it, named
\* after its stem, and the view is as modified as it was
C22_Witness ==
    /\ view.imagePath = <<"pics", "f.webp">>
    /\ view.written # None
    /\ view.written[1] = <<"pics">>
    /\ SubSeq(view.written[2], 1, 4) = <<102, 32, 45, 32>>
    /\ SubSeq(view.written[2], Len(view.written[2]) - 3, Len(view.written[2]))
           = PngSuffix
    /\ view.imageCanBeSaved /\ view.undoBuffer # <<>>

\* C23: while the viewer is shown, Zoom to Rect is enabled exactly when a
\* selection rectangle exists and Crop to Rect exactly when one exists and
\* the media on display is a picture; releasing the Meta key leaves the
\* rectangle that was dragged as it is.
C23_RectMenuItems ==
    /\ [](mw.imageMaximised =>
              /\ menu.zoomToRect <=> view.rectItem # None
              /\ menu.cropToRect <=>
                     (view.rectItem # None /\ view.pixmapItem # NoImage))
    /\ [][KeyRelease => view'.rectItem = view.rectItem]_vars

\* A rectangle dragged over a video is still there after the Meta key has
\* been released, with Zoom to Rect enabled and Crop to Rect disabled
C23_Witness ==
    /\ InViewer /\ view.videoItem /\ view.pixmapItem = NoImage
    /\ view.rectItem # None /\ ~view.ctrlHeld
    /\ menu.zoomToRect /\ ~menu.cropToRect

(***************************************************************************)
(* SpecZoom: a video and a picture are opened in the viewer, a rectangle   *)
(* is dragged, the wheel is turned, the view is panned and the window      *)
(* resized, and ZoomImage and ResetZoom are called whether or not their    *)
(* menu items are enabled.  pc.op keeps which of the two was called last.  *)
(***************************************************************************)
\* A call of FullImage.ZoomImage, into a rectangle that starts no further
\* than MaxPan from the media's origin
ZoomCalled ==
    /\ InViewer
    /\ view.rectItem # None =>
           view.rectItem[1] \in 0..MaxPan /\ view.rectItem[2] \in 0..MaxPan
    /\ Becomes(ZoomImage(World))
    /\ pc' = [pc EXCEPT !.op = [name |-> "ZoomImage", arg |-> 0]]
    /\ UNCHANGED <<fs, mw, dialog, gh, sr, th>>

\* A call of FullImage.ResetZoom
ResetZoomCalled ==
    /\ InViewer
    /\ Becomes(ResetZoom(World))
    /\ pc' = [pc EXCEPT !.op = [name |-> "ResetZoom", arg |-> 0]]
    /\ UNCHANGED <<fs, mw, dialog, gh, sr, th>>

\* The window is resized while the viewer is shown: MainWindow.resizeEvent
\* resizes the thumbnails and FullImage.resizeEvent runs for the new size
ViewerResized(window) ==
    /\ InViewer
    /\ window # mw.window
    /\ LET size == ThumbnailSizeOf(window)
           listed == {mw.thumbnailList[i] : i \in 1..Len(mw.thumbnailList)}
       IN  /\ th' = [th EXCEPT !.thumbnailSize = size,
                               !.cells = [id \in DOMAIN th.cells |->
                                   IF id \in listed
                                   THEN ResizeImage(fs, th.cells[id], size)
                                   ELSE th.cells[id]]]
           /\ mw' = LaidOut([mw EXCEPT !.window = window], size)
    /\ Becomes(ResizeEvent(World, <<window.width, window.height>>))
    /\ UNCHANGED <<fs, dialog, pc, gh, sr>>

\* FullImage._videoSizeChanged: the media player reports the size of the
\* frames of the video on display
VideoSizeChanged ==
    /\ InViewer
    /\ view.videoItem
    /\ Becomes(ResetZoom(World))
    /\ UNCHANGED <<fs, mw, dialog, pc, gh, sr, th>>

\* The zoomed view is dragged by one step, no further than MaxPan
ZoomPanned(dx, dy) ==
    /\ view.zoomed
    /\ view.origin[1] + dx \in 0..MaxPan
    /\ view.origin[2] + dy \in 0..MaxPan
    /\ Scrolled(dx, dy)

ZoomNext ==
    \/ \E i \in 2..Len(mw.thumbnailList) : ThumbnailClicked(i)
    \/ NextImage
    \/ \E p \in {<<1, 1>>} : KeyPress(p)
    \/ KeyRelease
    \/ \E p \in {<<2, 2>>} : MouseMoved(p)
    \/ ZoomCalled
    \/ ResetZoomCalled
    \/ \E deltaY \in {0 - 1, 1} : Wheel(deltaY)
    \/ \E window \in WindowSizes : ViewerResized(window)
    \/ \E d \in {<<1, 0>>} : ZoomPanned(d[1], d[2])
    \/ VideoSizeChanged

SpecZoom == ViewerInit /\ [][ZoomNext]_vars

\* C24: a call of ZoomImage with a rectangle present sets the zoomed flag,
\* enables Reset Zoom, removes the rectangle and disables Zoom to Rect and
\* Crop to Rect; a call with no rectangle changes nothing of the view and
\* of the menus.
C24_ZoomToRect ==
    [][ZoomCalled =>
           /\ view.rectItem # None =>
                  /\ view'.zoomed /\ menu'.resetZoom
                  /\ view'.rectItem = None
                  /\ ~menu'.zoomToRect /\ ~menu'.cropToRect
           /\ view.rectItem = None => view' = view /\ menu' = menu]_vars

\* ZoomImage has zoomed into a rectangle dragged over the picture
C24_Witness ==
    /\ pc.op.name = "ZoomImage" /\ view.pixmapItem # NoImage
    /\ view.zoomed /\ menu.resetZoom /\ view.rectItem = None
    /\ view.origin = <<1, 1>> /\ view.fitTo = None
    /\ ~menu.zoomToRect /\ ~menu.cropToRect

(***************************************************************************)
(* SpecPress: rectangles are dragged over a video and a picture and the    *)
(* mouse buttons are pressed, with and without the Meta modifier.          *)
(***************************************************************************)
\* A mouse button goes down over the viewer; pc keeps the button (op.arg 1:
\* the left one), the modifier (op.name) and whether a rectangle was
\* present (k) at the last press
PressCalled(leftButton, metaModifier) ==
    /\ InViewer
    /\ Becomes(MousePress(World, leftButton, metaModifier))
    /\ pc' = [pc EXCEPT !.op = [name |-> IF metaModifier THEN "metaPress"
                                                           ELSE "press",
                                arg |-> IF leftButton THEN 1 ELSE 0],
                        !.k = IF view.rectItem # None THEN 1 ELSE 0]
    /\ UNCHANGED <<fs, mw, dialog, gh, sr, th>>

PressNext ==
    \/ \E i \in 2..Len(mw.thumbnailList) : ThumbnailClicked(i)
    \/ NextImage
    \/ \E p \in SelectPoints : KeyPress(p)
    \/ KeyRelease
    \/ \E p \in SelectPoints : MouseMoved(p)
    \/ \E leftButton \in BOOLEAN : \E metaModifier \in BOOLEAN :
           PressCalled(leftButton, metaModifier)

SpecPress == ViewerInit /\ [][PressNext]_vars

\* C25: a press of the left button without the Meta modifier while a
\* rectangle is present removes the rectangle and disables Zoom to Rect and
\* Crop to Rect; a press with the modifier, or of another button, leaves the
\* rectangle and the two menu items as they were.
C25_PressRemovesRect ==
    [][\A leftButton \in BOOLEAN : \A metaModifier \in BOOLEAN :
           (PressCalled(leftButton, metaModifier) /\ view.rectItem # None) =>
               IF leftButton /\ ~metaModifier
               THEN /\ view'.rectItem = None
                    /\ ~menu'.zoomToRect /\ ~menu'.cropToRect
               ELSE /\ view'.rectItem = view.rectItem
                    /\ menu'.zoomToRect = menu.zoomToRect
                    /\ menu'.cropToRect = menu.cropToRect]_vars

\* A plain left press has removed the rectangle dragged over the picture:
\* the view is not zoomed and nothing has been cropped
C25_Witness ==
    /\ pc.op = [name |-> "press", arg |-> 1] /\ pc.k = 1
    /\ view.pixmapItem # NoImage /\ view.startDragPoint # None
    /\ view.rectItem = None /\ ~menu.zoomToRect /\ ~menu.cropToRect
    /\ ~view.zoomed /\ view.oldSceneCentre = None

\* C26: while the viewer is shown Reset Zoom is enabled exactly when the
\* zoomed flag is set; a call of ResetZoom clears the flag, disables the
\* item and leaves the media fitted to the window, and a second call after
\* it would change nothing of the view and of the menus.
C26_ResetZoom ==
    /\ [](mw.imageMaximised => (menu.resetZoom <=> view.zoomed))
    /\ [][ResetZoomCalled =>
              /\ ~view'.zoomed /\ ~menu'.resetZoom
              /\ view'.fitTo = view.viewport /\ view'.origin = <<0, 0>>
              /\ view'.wheel = <<1, 1>>
              /\ ResetZoom([v |-> view', m |-> menu'])
                     = [v |-> view', m |-> menu']]_vars

\* ResetZoom has brought the view back from a zoom into a rectangle
C26_Witness ==
    /\ pc.op.name = "ResetZoom" /\ InViewer
    /\ ~view.zoomed /\ ~menu.resetZoom
    /\ view.fitTo = view.viewport /\ view.origin = <<0, 0>>
    /\ view.oldSceneCentre = Center(view.viewport)

\* C27: a resize of the window while the viewer is shown leaves the zoomed
\* flag, the selection rectangle, the current image and the undo buffer as
\* they were; with the flag clear the media is fitted to the new size of the
\* window, with the flag set the handler completes, the scene point that
\* scrollContentsBy recorded last is at the centre of the view and the view
\* is not fitted anew.
C27_ResizeKeepsZoom ==
    [][(\E window \in WindowSizes : ViewerResized(window)) =>
           /\ view'.zoomed = view.zoomed
           /\ view'.rectItem = view.rectItem
           /\ view'.pilImage = view.pilImage
           /\ view'.undoBuffer = view.undoBuffer
           /\ ~view.zoomed =>
                  view'.fitTo = view'.viewport /\ view'.origin = <<0, 0>>
           /\ view.zoomed =>
                  /\ ~view'.raised
                  /\ MapToScene(view', Center(view'.viewport))
                         = view.oldSceneCentre
                  /\ view'.fitTo = view.fitTo]_vars

\* C28: every notch of the wheel, up or down, from any state of the viewer,
\* sets the zoomed flag and enables Reset Zoom; a notch up multiplies the
\* scale by ZOOM_SCALE_FACTOR and a notch down divides it by that factor.
C28_WheelZooms ==
    [][\A deltaY \in {0 - 1, 1} :
           Wheel(deltaY) =>
               /\ view'.zoomed /\ menu'.resetZoom
               /\ deltaY > 0 =>
                      view'.wheel[1] * view.wheel[2] * ZOOM_SCALE_FACTOR[2]
                          = view.wheel[1] * ZOOM_SCALE_FACTOR[1] * view'.wheel[2]
               /\ deltaY < 0 =>
                      view'.wheel[1] * ZOOM_SCALE_FACTOR[1] * view.wheel[2]
                          = view.wheel[1] * view'.wheel[2] * ZOOM_SCALE_FACTOR[2]]_vars

\* A notch one way and a notch back: the scale is that of the fit again,
\* nothing has scrolled, and the view counts as zoomed
C28_Witness ==
    /\ InViewer /\ view.pixmapItem # NoImage
    /\ view.wheel = <<1, 1>> /\ view.fitTo = None
    /\ view.origin = <<0, 0>> /\ view.oldSceneCentre = None
    /\ pc.op.name = ""
    /\ view.zoomed /\ menu.resetZoom

\* C29: the selection rectangle comes into being or changes only in a
\* pointer move made with the Meta flag set and a drag origin recorded; a
\* pointer move with the flag clear leaves the rectangle as it is; and the
\* scene holds the one rectangle the view refers to and no other.
C29_RectOnlyByDrag ==
    /\ [][(view'.rectItem # view.rectItem /\ view'.rectItem # None) =>
              /\ \E p \in SelectPoints : MouseMoved(p)
              /\ view.ctrlHeld /\ view.startDragPoint # None]_vars
    /\ [][((\E p \in SelectPoints : MouseMoved(p)) /\ ~view.ctrlHeld) =>
              view'.rectItem = view.rectItem /\ view'.sceneRects = view.sceneRects]_vars
    /\ [](view.sceneRects = IF view.rectItem # None THEN 1 ELSE 0)

\* With the Meta flag set a rectangle has been dragged up and left from the
\* origin <<1, 1>> and cut to the picture; the scene holds one rectangle
C29_Witness ==
    /\ InViewer /\ view.ctrlHeld /\ view.startDragPoint = <<1, 1>>
    /\ view.pixmapItem # NoImage
    /\ view.rectItem = RectOf(<<0, 0>>, <<1, 1>>)
    /\ view.sceneRects = 1

(***************************************************************************)
(* SpecSession: media files are opened from the browser, by file-open      *)
(* events and by Next and Previous, between sessions in which the picture  *)
(* is edited, selected in and zoomed.                                       *)
(***************************************************************************)
\* The files the file-open events of SpecSession name
SessionFiles == {<<"pics", "a.png">>, <<"pics", "c.mp4">>}

SessionNext ==
    \/ \E i \in 2..Len(mw.thumbnailList) : ThumbnailClicked(i)
    \/ NextImage
    \/ PrevImage
    \/ ReturnToBrowser
    \/ \E imagePath \in SessionFiles : FileOpened(imagePath)
    \/ StepCancelFlag
    \/ StepCancelFuture
    \/ StepCreate
    \/ ResetScroll
    \/ InvokePush([name |-> "Sharpen", arg |-> 0])
    \/ StepCallFunc
    \/ StepUpdatePixmap
    \/ StepSetCanBeSaved
    \/ StepEmitModified
    \/ Undo
    \/ KeyPress(<<0, 0>>)
    \/ MouseMoved(<<2, 2>>)
    \/ Wheel(1)

SpecSession == ViewerInit /\ [][SessionNext]_vars

\* A step in which _MaximiseImage opens a media file: a click on the
\* thumbnail of a file, the end of the listing a file-open event began,
\* Next or Previous
MediaOpened ==
    \/ (\E i \in 2..Len(mw.thumbnailList) : ThumbnailClicked(i))
           /\ mw'.imageMaximised
    \/ StepCreate /\ pc.op.name = "FileOpened"
    \/ NextImage
    \/ PrevImage

\* C30: every opening of a media file leaves an empty undo stack, the
\* modified flag clear with Save and Undo disabled, no selection rectangle
\* with its two menu items disabled, and the zoomed flag clear with Reset
\* Zoom disabled, whatever the session before had; a picture is decoded
\* afresh from its file, shown fitted to the viewport, and Undo would not
\* change it
C30_FreshSession ==
    [][MediaOpened =>
           /\ view'.imagePath # None
           /\ view'.undoBuffer = <<>>
           /\ ~view'.imageCanBeSaved
           /\ ~menu'.save /\ ~menu'.undo
           /\ view'.rectItem = None /\ view'.sceneRects = 0
           /\ ~menu'.zoomToRect /\ ~menu'.cropToRect
           /\ ~view'.zoomed /\ ~menu'.resetZoom
           /\ view'.wheel = <<1, 1>>
           /\ UndoLastChange([v |-> view', m |-> menu']) = [v |-> view', m |-> menu']
           /\ view'.pixmapItem # NoImage =>
                  /\ view'.pilImage = ImageOpen(view'.imagePath)
                  /\ view'.pixmapItem = view'.pilImage
                  /\ view'.fitTo = view'.viewport
                  /\ view'.origin = <<0, 0>>]_vars

\* A video has been opened after a session in which the picture was edited:
\* the edited picture is still held, and the undo stack is empty with Save
\* and Undo disabled
C30_Witness ==
    /\ mw.imageMaximised /\ view.videoItem
    /\ view.pilImage # NoImage /\ view.pilImage.ops # <<>>
    /\ view.undoBuffer = <<>> /\ ~view.imageCanBeSaved
    /\ ~menu.save /\ ~menu.undo /\ ~view.zoomed

(***************************************************************************)
(* SpecClassify: a folder whose media files have extensions in lower and   *)
(* in upper case is listed, and its files are opened in the viewer.        *)
(***************************************************************************)
ClassifyFs ==
    <<>> :> <<Folder("pics")>> @@
    <<"pics">> :> <<File("a.png"), File("B.JPG"), File("c.mp4"), File("C.MP4"),
                    File("e.txt")>>

ClassifyInit ==
    /\ fs = ClassifyFs
    /\ mw = Listed(ClassifyFs, <<"pics">>, StartWindow).m
    /\ th = Listed(ClassifyFs, <<"pics">>, StartWindow).t
    /\ ViewerOff
    /\ sr = SrOff

ClassifyNext ==
    \/ \E i \in 2..Len(mw.thumbnailList) : ThumbnailClicked(i)
    \/ NextImage
    \/ PrevImage
    \/ ReturnToBrowser
    \/ KeyPress(<<0, 0>>)
    \/ KeyRelease
    \/ MouseMoved(<<1, 1>>)
    \/ Wheel(1)

SpecClassify == ClassifyInit /\ [][ClassifyNext]_vars

\* The listing takes the file as a picture, or as a video
ListedAsImage(path) == Lower(Suffix(path)) \in IMAGE_EXTENSIONS

ListedAsVideo(path) == Lower(Suffix(path)) \in VIDEO_EXTENSIONS

\* C31: a listed file whose extension is an image extension in any case has
\* a thumbnail with a load task and is opened in the viewer as a picture;
\* one whose extension is a video extension in any case has the video icon
\* with no load task and is opened as a video
C31_SameClassification ==
    /\ \A i \in 1..Len(mw.thumbnailList) :
           LET cell == th.cells[mw.thumbnailList[i]]
           IN  IsFile(fs, cell.path) =>
                   /\ ListedAsImage(cell.path) =>
                          cell.loadFuture /\ cell.currentImage # "video"
                   /\ ListedAsVideo(cell.path) =>
                          ~cell.loadFuture /\ cell.pixmap = "video"
    /\ mw.imageMaximised =>
           /\ ListedAsImage(view.imagePath) =>
                  view.pixmapItem # NoImage /\ ~view.videoItem
           /\ ListedAsVideo(view.imagePath) =>
                  view.videoItem /\ view.pixmapItem = NoImage

(***************************************************************************)
(* SpecRace: the window is resized while the threads of the executor load  *)
(* the thumbnails of the listed folder.  MainWindow.resizeEvent calls      *)
(* ResizeImage on every thumbnail of the list in the UI thread, statement  *)
(* by statement, and no lock keeps the threads apart.                      *)
(***************************************************************************)
\* The statements of Thumbnail.ResizeImage
ResizePlaces ==
    {"test328", "size330", "test336", "convert338", "test349", "scale351",
     "test354", "text356", "test358", "pixmap360", "emit366"}

\* The UI thread in resizeEvent, about to run the statement at `place` of
\* ResizeImage on the thumbnail at position k of the list
Resizing(k, place, local) ==
    [at |-> "resize", op |-> [name |-> "resizeEvent", arg |-> 0], k |-> k,
     path |-> <<>>, place |-> place, local |-> local]

\* The thumbnail the UI thread is resizing
ResizedCell == mw.thumbnailList[pc.k]

\* MainWindow.resizeEvent up to the first call of ResizeImage
ResizeEventBegins(window) ==
    /\ pc.at = "idle"
    /\ window # mw.window
    /\ mw.thumbnailList # <<>>
    /\ th' = [th EXCEPT !.thumbnailSize = ThumbnailSizeOf(window)]
    /\ mw' = LaidOut([mw EXCEPT !.window = window], ThumbnailSizeOf(window))
    /\ pc' = Resizing(1, "test328", "null")
    /\ UNCHANGED <<fs, view, menu, dialog, gh, sr>>

\* The UI thread runs the next statement of ResizeImage; the loaded signal
\* it emits at line 366 calls ImageLoaded at once, which waits for a future
\* that is not done
ResizeStatement ==
    /\ pc.at = "resize" /\ pc.place \in ResizePlaces
    /\ LET cell == th.cells[ResizedCell]
           next == LoadStatement(fs, cell, pc.place, pc.local, th.thumbnailSize)
       IN  IF pc.place = "emit366"
           THEN IF cell.loadFuture /\ ~FutureDone(cell)
                THEN /\ pc' = [pc EXCEPT !.place = "result373"]
                     /\ UNCHANGED th
                ELSE /\ th' = [th EXCEPT !.cells[ResizedCell] = ImageLoaded(cell)]
                     /\ pc' = [pc EXCEPT !.place = "return"]
           ELSE /\ th' = [th EXCEPT !.cells[ResizedCell] = next.cell]
                /\ pc' = [pc EXCEPT !.place = next.at, !.local = next.local]
    /\ UNCHANGED <<fs, view, menu, mw, dialog, gh, sr>>

\* ImageLoaded, lines 373-383, called from ResizeImage: the load finishes
\* within the second; result() raises what the load raised
ResizeResult ==
    /\ pc.at = "resize" /\ pc.place = "result373"
    /\ FutureDone(th.cells[ResizedCell])
    /\ th' = IF th.cells[ResizedCell].exception THEN th
             ELSE [th EXCEPT !.cells[ResizedCell] =
                      [ImageLoaded(@) EXCEPT !.loadFuture = FALSE]]
    /\ pc' = [pc EXCEPT !.place = "return"]
    /\ UNCHANGED <<fs, view, menu, mw, dialog, gh, sr>>

\* ImageLoaded, line 373: the second passes and result() raises in the slot
ResizeTimeout ==
    /\ pc.at = "resize" /\ pc.place = "result373"
    /\ ~FutureDone(th.cells[ResizedCell])
    /\ pc' = [pc EXCEPT !.place = "return"]
    /\ UNCHANGED <<fs, view, menu, mw, dialog, gh, sr, th>>

\* ResizeImage returns: the loop of resizeEvent goes to the next thumbnail
ResizeReturn ==
    /\ pc.at = "resize" /\ pc.place = "return"
    /\ pc' = IF pc.k < Len(mw.thumbnailList)
             THEN Resizing(pc.k + 1, "test328", "null") ELSE Idle
    /\ UNCHANGED <<fs, view, menu, mw, dialog, gh, sr, th>>

RaceNext ==
    \/ StartUpTimerExpired
    \/ StepCreate
    \/ ResetScroll
    \/ \E window \in WindowSizes : ResizeEventBegins(window)
    \/ ResizeStatement
    \/ ResizeResult
    \/ ResizeTimeout
    \/ ResizeReturn
    \/ \E w \in 1..MaxWorkers : WorkerTake(w)
    \/ \E w \in 1..MaxWorkers : WorkerStatement(w)
    \/ \E w \in 1..MaxWorkers : WorkerReturn(w)
    \/ \E id \in DOMAIN th.cells : ImageLoadedSlot(id)
    \/ ImageLoadedResult
    \/ ImageLoadedTimeout

SpecRace == LoaderInit /\ [][RaceNext]_vars

\* C32: the UI thread is never within ResizeImage on a thumbnail while a
\* pool thread is within ResizeImage on the same thumbnail, and a thumbnail
\* whose load was submitted is at full opacity only if its picture has been
\* decoded
C32_ResizeExclusive ==
    /\ \A w \in 1..MaxWorkers :
           ~ /\ pc.at = "resize" /\ pc.place \in ResizePlaces
             /\ th.workers[w].kind = "load"
             /\ th.workers[w].at \in ResizePlaces
             /\ th.workers[w].cell = ResizedCell
    /\ \A id \in DOMAIN th.cells :
           (th.cells[id].state # "none" /\ th.cells[id].opacity = 100) =>
               th.cells[id].qtImage

\* The positions of the list whose thumbnail is highlighted
HighlightedPositions ==
    {i \in 1..Len(mw.thumbnailList) : th.cells[mw.thumbnailList[i]].highlighted}

\* C33: whenever a key or click handler of the browser can run on a listed
\* folder, the highlighted index is within the thumbnail list; at most one
\* thumbnail of the list is highlighted; and every thumbnail's ItemNumber is
\* its position in the list
C33_HighlightWithinList ==
    /\ (InBrowser /\ mw.thumbnailList # <<>>) =>
           mw.currentHighlightedThumbnail \in 0..(Len(mw.thumbnailList) - 1)
    /\ Cardinality(HighlightedPositions) <= 1
    /\ \A i \in 1..Len(mw.thumbnailList) :
           th.cells[mw.thumbnailList[i]].item = i - 1

(***************************************************************************)
(* SpecNav: the first file of a folder of four media files is opened from  *)
(* the browser or by a file-open event, and Next and Previous move through *)
(* the folder.                                                             *)
(***************************************************************************)
NavNext ==
    \/ ThumbnailClicked(2)
    \/ FileOpened(<<"pics", "a.png">>)
    \/ StepCancelFlag
    \/ StepCancelFuture
    \/ StepCreate
    \/ ResetScroll
    \/ NextImage
    \/ PrevImage
    \/ ReturnToBrowser
    \/ Wheel(1)

SpecNav == ClassifyInit /\ [][NavNext]_vars

\* The media files of the current folder
MediaFilesHere ==
    {Append(mw.currentPath, fs[mw.currentPath][i].name) :
        i \in {j \in 1..Len(fs[mw.currentPath]) :
                 /\ ~fs[mw.currentPath][j].isDir
                 /\ Lower(SuffixOf(Codes[fs[mw.currentPath][j].name]))
                        \in SUPPORTED_EXTENSIONS}}

FittedNoRect(v, m) ==
    /\ ~v.zoomed /\ ~m.resetZoom
    /\ v.rectItem = None /\ ~m.zoomToRect /\ ~m.cropToRect

\* C35: every step that displays the result of a mutating operation and
\* every step that completes one, every Undo that pops a snapshot, every
\* slider preview and every reject of the dialog leaves the zoomed flag
\* clear, Reset Zoom disabled, no rectangle, and Zoom to Rect and Crop to
\* Rect disabled
C35_UpdateResetsView ==
    [][(\/ StepUpdatePixmap
        \/ StepEmitModified
        \/ Undo /\ view.undoBuffer # <<>>
        \/ \E slider \in {"colour", "contrast", "brightness"} :
               \E value \in 0..20 : SliderMoved(slider, value)
        \/ Reject)
           => FittedNoRect(view', menu')]_vars

\* C36: CropImage called on a picture with a rectangle of left, top, width
\* w and height h within it makes the current image an image of w by h
\* pixels taken at (left, top) of the image before
C36_CropExact ==
    [][(/\ StepCallFunc /\ pc.op.name = "CropImage"
        /\ view.rectItem # None /\ view.pilImage # NoImage
        /\ RectWithin(view.rectItem, BoundingRect(view.pilImage)))
           => /\ view'.pilImage.w = view.rectItem[3] - view.rectItem[1]
              /\ view'.pilImage.h = view.rectItem[4] - view.rectItem[2]
              /\ view'.pilImage.ops =
                     Append(view.pilImage.ops,
                            Tag("crop", view.rectItem[1], view.rectItem[2]))]_vars

\* C37: the four menus are enabled exactly when the image is maximised, and
\* once a media file has been opened exactly one of the image editing
\* actions and the video transport actions is enabled: the image editing
\* actions exactly when a picture is loaded, the video transport actions
\* exactly when a video is loaded
C37_MenusFollowMode ==
    /\ menu.menus <=> mw.imageMaximised
    /\ (view.pixmapItem # NoImage \/ view.videoItem) =>
           /\ menu.imageActions # menu.videoActions
           /\ menu.imageActions <=> view.pixmapItem # NoImage
           /\ menu.videoActions <=> view.videoItem

\* The browser is shown again after a video that was opened after an edited
\* picture: the menus are disabled and the video transport actions enabled
C37_Witness ==
    /\ ~mw.imageMaximised /\ ~menu.menus /\ pc.at = "idle"
    /\ view.videoItem /\ menu.videoActions /\ ~menu.imageActions
    /\ view.pilImage # NoImage /\ view.pilImage.ops # <<>>

(***************************************************************************)
(* SpecLoaderFair: SpecLoader with the event loop of the UI thread and the *)
(* threads of the executor scheduled fairly: a handler that is ready to    *)
(* run is run, a queued task is taken by an idle thread, and a thread runs *)
(* its next statement.  What the user does, and the second that a wait on  *)
(* a future lasts, are under no such obligation.                           *)
(***************************************************************************)
\* The steps of the UI thread out of the loop that creates the thumbnails:
\* StepCreate is the one action that takes pc from "create" to idle
CreateReturns == pc.at = "create" /\ pc' = Idle

LoaderFairness ==
    /\ WF_vars(StartUpTimerExpired)
    /\ WF_vars(StepCancelFlag)
    /\ WF_vars(StepCancelFuture)
    /\ WF_pc(CreateReturns)
    /\ WF_vars(ResetScroll)
    /\ WF_vars(\E id \in DOMAIN th.cells : ImageLoadedSlot(id))
    /\ WF_vars(ImageLoadedResult)
    /\ \A w \in 1..MaxWorkers :
           /\ WF_vars(WorkerTake(w))
           /\ WF_vars(WorkerStatement(w))
           /\ WF_vars(WorkerReturn(w))
           /\ WF_vars(WaitTest(w))
           /\ WF_vars(WaitResult(w))

SpecLoaderFair == LoaderInit /\ [][LoaderNext]_vars /\ LoaderFairness

\* The identities the Thumbnail objects of SpecLoader take: the lists of at
\* most MaxStale + 2 folders of MaxEntries thumbnails are alive at a time
LoaderIds == 1..((MaxStale + 2) * MaxEntries)

\* The load of thumbnail id has been submitted
LoadSubmitted(id) ==
    /\ id \in DOMAIN th.cells
    /\ th.cells[id].state = "pending"
    /\ Decodable(fs, th.cells[id].path)

\* Thumbnail id has been cancelled or is gone
LoadGivenUp(id) ==
    id \notin DOMAIN th.cells \/ th.cells[id].loadCancelled

\* C38: a load that has been submitted for a picture that decodes leads, if
\* the thumbnail is not cancelled, to the thumbnail showing the decoded
\* picture at full opacity
C38_LoadCompletes ==
    \A id \in LoaderIds :
        LoadSubmitted(id) ~>
            (LoadGivenUp(id) \/ (/\ th.cells[id].pixmap = "image"
                                 /\ th.cells[id].opacity = 100))

(***************************************************************************)
(* SpecPool: the threads of the executor and the UI thread, scheduled as   *)
(* in SpecLoaderFair, on a folder of two pictures, so that the two threads *)
(* can run two loads, or a load and the task that waits for it, while      *)
(* further tasks are queued.                                               *)
(***************************************************************************)
PoolFs ==
    <<>> :> <<Folder("pics")>> @@
    <<"pics">> :> <<File("a.png"), File("h.gif")>>

PoolInit ==
    /\ fs = PoolFs
    /\ mw = MainWindowInit(<<"pics">>, StartWindow)
    /\ th = ThInit
    /\ ViewerOff
    /\ sr = SrOff

SpecPool == PoolInit /\ [][LoaderNext]_vars /\ LoaderFairness

\* The tasks of the pool that wait for a cancelled load: the queued ones and
\* the ones a thread is running
WaitTasks ==
    {th.queue[i].cell : i \in {j \in 1..Len(th.queue) : th.queue[j].kind = "wait"}}
        \cup {th.workers[w].cell : w \in {v \in 1..MaxWorkers : th.workers[v].kind = "wait"}}

\* The loads a thread is running
RunningLoads ==
    {th.workers[w].cell : w \in {v \in 1..MaxWorkers : th.workers[v].kind = "load"}}

\* CancelLoad has submitted a task that waits for a cancelled load
WaitSubmitted ==
    \E i \in 1..Len(th'.queue) :
        /\ th'.queue[i].kind = "wait"
        /\ i > Len(th.queue)

\* C39: a task that waits for a cancelled load is submitted only for a load
\* that a thread is running or that has finished, so that every task that
\* waits in the pool waits for such a load; the thread that runs a load can
\* always take its next step; and every thread that runs a task is idle
\* again later, without any wait running into its timeout being required
C39_PoolTerminates ==
    /\ [][WaitSubmitted =>
             \A i \in (Len(th.queue) + 1)..Len(th'.queue) :
                 th'.queue[i].kind = "wait" =>
                     /\ th.cells[th'.queue[i].cell].state \in {"running", "finished"}
                     /\ th.cells[th'.queue[i].cell].state = "running"
                            => th'.queue[i].cell \in RunningLoads]_vars
    /\ [](\A id \in WaitTasks :
              /\ th.cells[id].state \in {"running", "finished"}
              /\ th.cells[id].state = "running" => id \in RunningLoads)
    /\ \A w \in 1..MaxWorkers :
           th.workers[w].kind # "none" ~> th.workers[w].kind = "none"

\* Every thread is occupied, one of them waits for a cancelled load that
\* another is still running, and a second cancelled thumbnail has its task
\* waiting in the queue
C39_Witness ==
    /\ \A w \in 1..MaxWorkers : th.workers[w].kind # "none"
    /\ \E w \in 1..MaxWorkers :
           /\ th.workers[w].kind = "wait" /\ th.workers[w].at = "result403"
           /\ th.cells[th.workers[w].cell].state = "running"
    /\ \E i \in 1..Len(th.queue) : th.queue[i].kind = "wait"
    /\ Cardinality({id \in DOMAIN th.cells : th.cells[id].loadCancelled}) > 1

=============================================================================
